---- MODULE Spec2Model ----
(***************************************************************************)
(* Range & equity engine of pokertool: the range-notation codec            *)
(* (format_range_to_text / parse_range_text), the top-N% expansion and the *)
(* push/fold lookup (poker_logic.py) and the multi-street Monte-Carlo      *)
(* equity engine (poker_logic_bkp.py).                                     *)
(*                                                                         *)
(* A Python str is a sequence of one-character strings, so that sorting,   *)
(* slicing, case conversion and splitting are computed as the code         *)
(* computes them.                                                          *)
(***************************************************************************)
EXTENDS Integers, Sequences, FiniteSets, TLC

VARIABLES
    \* range grid and text entry (codec)
    selected_hands, range_text, parsed_hands, codec_pc,
    \* two successive calls of get_top_hands_by_percentage
    percentage, top_hands, prev_percentage, prev_top_hands, top_pc,
    \* the push/fold table loaded at import, one call of get_push_fold_advice
    PUSH_FOLD_RANGES, stack_bb, position, players_left, advice_result, advice_pc,
    \* one call of calculate_hand_vs_range_equity: its arguments, its locals, the
    \* trial it tallied last on the street it is at, its position and what it returns
    hero_hand_str, villain_range_list, board_str_list,
    street_idx, sim_count, successful_sims, street_results, final_results,
    tallied_trial, equity_pc, equity_return,
    \* the items of the module-level list SIMPLIFIED_HAND_RANKING, and the callers'
    \* references ("top_hands", "range_list") that designate that same list object
    ranking_list, ranking_aliases,
    \* st.session_state of the Streamlit trainer
    session_state

codec_vars == <<selected_hands, range_text, parsed_hands, codec_pc>>

top_vars == <<percentage, top_hands, prev_percentage, prev_top_hands, top_pc>>

advice_vars ==
    <<PUSH_FOLD_RANGES, stack_bb, position, players_left, advice_result, advice_pc>>

equity_args == <<hero_hand_str, villain_range_list, board_str_list>>

equity_vars ==
    <<equity_args, street_idx, sim_count, successful_sims, street_results, final_results,
      tallied_trial, equity_pc, equity_return>>

module_vars == <<ranking_list, ranking_aliases>>

trainer_vars == <<session_state>>

vars == <<codec_vars, top_vars, advice_vars, equity_vars, module_vars, trainer_vars>>

(***************************************************************************)
(* Bounds of the model.                                                    *)
(***************************************************************************)
\* The codec is exercised on hand classes over the ace and the NumLowRanks
\* lowest ranks (the "wheel" ranks of the spec's A2s-A5s example).
NumLowRanks == 4

\* At most MaxSelected classes are selected in the range grid.
MaxSelected == 4

\* get_top_hands_by_percentage is called with every percentage whose target is an
\* exact number of combos from 1 to MaxExactCombos (besides the whole percents).
MaxExactCombos == 90

\* A typed range text has at most MaxTokens tokens.
MaxTokens == 2

\* "push ranges.csv" has at most MaxRows data rows.
MaxRows == 2

\* get_push_fold_advice is called with the whole stack depths -1..MaxStackRequest.
MaxStackRequest == 9

\* Trials a street's simulation has to complete (10000 in the program).
simulations == 2

\* A street's simulation is followed for MaxExtraAttempts attempts past the first
\* one at which the retry ceiling is exceeded.
MaxExtraAttempts == 1

\* deck.draw(n) deals n of the first n + DrawSlack cards that are left in the deck.
DrawSlack == 1

(***************************************************************************)
(* Basic poker constants.                                                  *)
(***************************************************************************)
RANKS == <<"A","K","Q","J","T","9","8","7","6","5","4","3","2">>

TOTAL_COMBOS == 1326

SUITS_TREYS == <<"s","h","d","c">>

SIMPLIFIED_HAND_RANKING == <<
    <<"A","A">>, <<"K","K">>, <<"Q","Q">>, <<"J","J">>, <<"T","T">>, <<"9","9">>, <<"8","8">>, <<"7","7">>, <<"6","6">>, <<"5","5">>, <<"4","4">>, <<"3","3">>, <<"2","2">>,
    <<"A","K","s">>, <<"A","Q","s">>, <<"A","J","s">>, <<"A","T","s">>, <<"A","9","s">>, <<"A","8","s">>, <<"A","7","s">>, <<"A","6","s">>, <<"A","5","s">>, <<"A","4","s">>, <<"A","3","s">>, <<"A","2","s">>,
    <<"K","Q","s">>, <<"K","J","s">>, <<"K","T","s">>, <<"K","9","s">>, <<"K","8","s">>, <<"K","7","s">>, <<"K","6","s">>, <<"K","5","s">>, <<"K","4","s">>, <<"K","3","s">>, <<"K","2","s">>,
    <<"Q","J","s">>, <<"Q","T","s">>, <<"Q","9","s">>, <<"Q","8","s">>, <<"Q","7","s">>, <<"Q","6","s">>, <<"Q","5","s">>, <<"Q","4","s">>, <<"Q","3","s">>, <<"Q","2","s">>,
    <<"J","T","s">>, <<"J","9","s">>, <<"J","8","s">>, <<"J","7","s">>, <<"J","6","s">>, <<"J","5","s">>, <<"J","4","s">>, <<"J","3","s">>, <<"J","2","s">>,
    <<"T","9","s">>, <<"T","8","s">>, <<"T","7","s">>, <<"T","6","s">>, <<"T","5","s">>, <<"T","4","s">>, <<"T","3","s">>, <<"T","2","s">>,
    <<"9","8","s">>, <<"9","7","s">>, <<"9","6","s">>, <<"9","5","s">>, <<"9","4","s">>, <<"9","3","s">>, <<"9","2","s">>,
    <<"8","7","s">>, <<"8","6","s">>, <<"8","5","s">>, <<"8","4","s">>, <<"8","3","s">>, <<"8","2","s">>,
    <<"7","6","s">>, <<"7","5","s">>, <<"7","4","s">>, <<"7","3","s">>, <<"7","2","s">>,
    <<"6","5","s">>, <<"6","4","s">>, <<"6","3","s">>, <<"6","2","s">>,
    <<"5","4","s">>, <<"5","3","s">>, <<"5","2","s">>,
    <<"4","3","s">>, <<"4","2","s">>,
    <<"3","2","s">>,
    <<"A","K","o">>, <<"A","Q","o">>, <<"A","J","o">>, <<"A","T","o">>, <<"A","9","o">>, <<"A","8","o">>, <<"A","7","o">>, <<"A","6","o">>, <<"A","5","o">>, <<"A","4","o">>, <<"A","3","o">>, <<"A","2","o">>,
    <<"K","Q","o">>, <<"K","J","o">>, <<"K","T","o">>, <<"K","9","o">>, <<"K","8","o">>, <<"K","7","o">>, <<"K","6","o">>, <<"K","5","o">>, <<"K","4","o">>, <<"K","3","o">>, <<"K","2","o">>,
    <<"Q","J","o">>, <<"Q","T","o">>, <<"Q","9","o">>, <<"Q","8","o">>, <<"Q","7","o">>, <<"Q","6","o">>, <<"Q","5","o">>, <<"Q","4","o">>, <<"Q","3","o">>, <<"Q","2","o">>,
    <<"J","T","o">>, <<"J","9","o">>, <<"J","8","o">>, <<"J","7","o">>, <<"J","6","o">>, <<"J","5","o">>, <<"J","4","o">>, <<"J","3","o">>, <<"J","2","o">>,
    <<"T","9","o">>, <<"T","8","o">>, <<"T","7","o">>, <<"T","6","o">>, <<"T","5","o">>, <<"T","4","o">>, <<"T","3","o">>, <<"T","2","o">>,
    <<"9","8","o">>, <<"9","7","o">>, <<"9","6","o">>, <<"9","5","o">>, <<"9","4","o">>, <<"9","3","o">>, <<"9","2","o">>,
    <<"8","7","o">>, <<"8","6","o">>, <<"8","5","o">>, <<"8","4","o">>, <<"8","3","o">>, <<"8","2","o">>,
    <<"7","6","o">>, <<"7","5","o">>, <<"7","4","o">>, <<"7","3","o">>, <<"7","2","o">>,
    <<"6","5","o">>, <<"6","4","o">>, <<"6","3","o">>, <<"6","2","o">>,
    <<"5","4","o">>, <<"5","3","o">>, <<"5","2","o">>,
    <<"4","3","o">>, <<"4","2","o">>,
    <<"3","2","o">>
    >>

(***************************************************************************)
(* Python built-ins on str and list.                                       *)
(***************************************************************************)
Range(s) == {s[i] : i \in DOMAIN s}

Reversed(s) == [i \in 1..Len(s) |-> s[Len(s) + 1 - i]]

\* Code-point order of the characters that occur in range texts.
CodePoints ==
    <<" ", "+", ",", "-", "2", "3", "4", "5", "6", "7", "8", "9",
      "A", "J", "K", "O", "Q", "S", "T", "a", "j", "k", "o", "q", "s", "t">>

Ord(c) == CHOOSE i \in DOMAIN CodePoints : CodePoints[i] = c

\* str.__lt__: lexicographic by code point, a proper prefix sorts first.
RECURSIVE StrLess(_, _)
StrLess(a, b) ==
    IF b = <<>> THEN FALSE
    ELSE IF a = <<>> THEN TRUE
    ELSE IF a[1] # b[1] THEN Ord(a[1]) < Ord(b[1])
    ELSE StrLess(Tail(a), Tail(b))

\* sorted(set of str)
RECURSIVE SortedStrs(_)
SortedStrs(S) ==
    IF S = {} THEN <<>>
    ELSE LET m == CHOOSE x \in S : \A y \in S \ {x} : StrLess(x, y)
         IN  <<m>> \o SortedStrs(S \ {m})

\* RANKS.index(c); callers reach it only for c in RANKS or catch ValueError.
RankIndex(c) == (CHOOSE i \in DOMAIN RANKS : RANKS[i] = c) - 1

InRanks(c) == c \in Range(RANKS)

\* sorted(dict keys) for one-character keys
RECURSIVE SortedChars(_)
SortedChars(S) ==
    IF S = {} THEN <<>>
    ELSE LET m == CHOOSE x \in S : \A y \in S : Ord(x) <= Ord(y)
         IN  <<m>> \o SortedChars(S \ {m})

UpperChar(c) ==
    CASE c = "a" -> "A" [] c = "k" -> "K" [] c = "q" -> "Q" [] c = "j" -> "J"
      [] c = "t" -> "T" [] c = "s" -> "S" [] c = "o" -> "O" [] OTHER -> c

LowerChar(c) ==
    CASE c = "A" -> "a" [] c = "K" -> "k" [] c = "Q" -> "q" [] c = "J" -> "j"
      [] c = "T" -> "t" [] c = "S" -> "s" [] c = "O" -> "o" [] OTHER -> c

Upper(s) == [i \in 1..Len(s) |-> UpperChar(s[i])]

\* str.strip()
RECURSIVE LStrip(_)
LStrip(s) == IF s # <<>> /\ s[1] = " " THEN LStrip(Tail(s)) ELSE s

Strip(s) == Reversed(LStrip(Reversed(LStrip(s))))

\* sep.join(list of str)
RECURSIVE Join(_, _)
Join(sep, parts) ==
    IF parts = <<>> THEN <<>>
    ELSE IF Len(parts) = 1 THEN parts[1]
    ELSE parts[1] \o <<sep>> \o Join(sep, Tail(parts))

\* Index of the first occurrence of character c in s, 0 if there is none.
FirstIndexOf(s, c) ==
    IF c \in Range(s) THEN CHOOSE i \in DOMAIN s : s[i] = c /\ \A j \in 1..(i - 1) : s[j] # c
    ELSE 0

\* s.split(c): all fields, empty ones included.
RECURSIVE Split(_, _)
Split(s, c) ==
    LET i == FirstIndexOf(s, c)
    IN  IF i = 0 THEN <<s>>
        ELSE <<SubSeq(s, 1, i - 1)>> \o Split(SubSeq(s, i + 1, Len(s)), c)

(***************************************************************************)
(* Python values that reach an isinstance test: a type tag and a number.   *)
(* A percentage is counted in units of 1/UnitsPerPercent percent, so that  *)
(* both one-decimal percentages (663 units per 0.1%) and exact combo       *)
(* targets (500 units per combo) are integers; a stack depth is counted in *)
(* big blinds.                                                             *)
(***************************************************************************)
PyValue(type, val) == [type |-> type, val |-> val]

None == PyValue("NoneType", 0)

\* isinstance(x, (int, float)); bool is a subclass of int
IsIntOrFloat(x) == x.type \in {"int", "float", "bool"}

\* isinstance(x, int)
IsInt(x) == x.type \in {"int", "bool"}

\* A percentage is held exactly, as a whole number of units of 1/6630 of a percent:
\* tenths of a percent and the percentages of whole numbers of combos are both
\* whole numbers of units.  The rounding of binary floating point is left out.
UnitsPerPercent == TOTAL_COMBOS * 5

Percent(tenths) == PyValue("float", tenths * (UnitsPerPercent \div 10))

(***************************************************************************)
(* Canonical hand model.                                                   *)
(***************************************************************************)
get_all_hands ==
    UNION {
        IF i = j THEN {<<RANKS[i], RANKS[j]>>}
        ELSE {<<RANKS[i], RANKS[j], "s">>, <<RANKS[i], RANKS[j], "o">>}
        : <<i, j>> \in {p \in (DOMAIN RANKS) \X (DOMAIN RANKS) : p[1] <= p[2]} }

\* A variant that gives a suited class the weight of an offsuit one and conversely.
get_hand_combos_kinds_swapped(hand_str) ==
    IF Len(hand_str) = 2
    THEN IF InRanks(hand_str[1]) /\ hand_str[2] = hand_str[1] THEN 6 ELSE 0
    ELSE IF Len(hand_str) = 3
    THEN IF InRanks(hand_str[1]) /\ InRanks(hand_str[2]) /\ hand_str[1] # hand_str[2]
         THEN IF hand_str[3] = "s" THEN 12
              ELSE IF hand_str[3] = "o" THEN 4
              ELSE 0
         ELSE 0
    ELSE 0

get_hand_combos(hand_str) ==
    IF Len(hand_str) = 2
    THEN IF InRanks(hand_str[1]) /\ hand_str[2] = hand_str[1] THEN 6 ELSE 0
    ELSE IF Len(hand_str) = 3
    THEN IF InRanks(hand_str[1]) /\ InRanks(hand_str[2]) /\ hand_str[1] # hand_str[2]
         THEN IF hand_str[3] = "s" THEN 4
              ELSE IF hand_str[3] = "o" THEN 12
              ELSE 0
         ELSE 0
    ELSE 0

(***************************************************************************)
(* Top X% of the strength ranking.                                         *)
(***************************************************************************)
\* running_combos < combos_needed, with combos_needed = TOTAL_COMBOS * (percentage / 100.0)
BelowTargetLeq(running_combos, pct) ==
    running_combos * 100 * UnitsPerPercent <= TOTAL_COMBOS * pct.val

BelowTarget(running_combos, pct) ==
    running_combos * 100 * UnitsPerPercent < TOTAL_COMBOS * pct.val

\* One iteration of "for hand in SIMPLIFIED_HAND_RANKING" at 1-based position i;
\* broke records that the loop has left through its break.
TopHandsStep(pct, i, st) ==
    IF st.broke THEN st
    ELSE LET hand == SIMPLIFIED_HAND_RANKING[i]
             ccount == get_hand_combos(hand)
         IN  IF ccount = 0 THEN st
             ELSE IF BelowTarget(st.running_combos, pct)
             THEN [running_combos |-> st.running_combos + ccount,
                   selected_hands |-> Append(st.selected_hands, hand),
                   broke |-> FALSE]
             ELSE [st EXCEPT !.broke = TRUE]

\* The iterations lo..hi in order (split in halves to keep the evaluation shallow).
RECURSIVE TopHandsLoop(_, _, _, _)
TopHandsLoop(pct, lo, hi, st) ==
    IF lo > hi \/ st.broke THEN st
    ELSE IF lo = hi THEN TopHandsStep(pct, lo, st)
    ELSE LET mid == (lo + hi) \div 2
         IN  TopHandsLoop(pct, mid + 1, hi, TopHandsLoop(pct, lo, mid, st))

TopHandsSelected(pct) ==
    TopHandsLoop(pct, 1, Len(SIMPLIFIED_HAND_RANKING),
                 [running_combos |-> 0, selected_hands |-> <<>>, broke |-> FALSE]).selected_hands

\* List objects: the module-level ranking, and a list made by the call.  list(x) makes
\* a new list of the items of x (the variant hands x itself back).
RankingObject == "SIMPLIFIED_HAND_RANKING"

NewList == "new list"

list_alias(obj) == obj

list(obj) == NewList

\* The list object get_top_hands_by_percentage returns.
TopHandsObject(pct) ==
    IF ~IsIntOrFloat(pct) \/ pct.val <= 0 THEN NewList
    ELSE IF pct.val >= 100 * UnitsPerPercent THEN list(RankingObject)
    ELSE NewList

\* The references that designate the ranking after ref has been bound to obj.
Rebind(aliases, ref, obj) ==
    IF obj = RankingObject THEN aliases \cup {ref} ELSE aliases \ {ref}

\* The copy of poker_logic.py in "poker_logic copy.py" treats a percentage above 100
\* as invalid and returns the empty list.
get_top_hands_by_percentage_copy(pct) ==
    IF ~IsIntOrFloat(pct) \/ pct.val < 0 \/ pct.val > 100 * UnitsPerPercent THEN <<>>
    ELSE IF pct.val = 0 THEN <<>>
    ELSE TopHandsSelected(pct)

get_top_hands_by_percentage(pct) ==
    IF ~IsIntOrFloat(pct) \/ pct.val <= 0 THEN <<>>
    ELSE IF pct.val >= 100 * UnitsPerPercent THEN SIMPLIFIED_HAND_RANKING
    ELSE TopHandsSelected(pct)

(***************************************************************************)
(* The push/fold table and get_push_fold_advice.                           *)
(***************************************************************************)
expected_pos_headers == <<"SB", "B", "CO", "HJ", "LJ", "UTG+3", "UTG+2", "UTG+1", "UTG">>

\* A dict as a function; {} is the function with the empty domain.
EmptyDict == <<>>

DictSet(dict, key, value) ==
    [k \in (DOMAIN dict) \cup {key} |-> IF k = key THEN value ELSE dict[k]]

\* dict.get(key, None)
DictGet(dict, key) == IF key \in DOMAIN dict THEN dict[key] ELSE None

\* A cell of a CSV row after .strip(): empty, text float() rejects, or a number.
EmptyCell == [kind |-> "empty", val |-> 0]

BadCell == [kind |-> "bad", val |-> 0]

NumCell(val) == [kind |-> "num", val |-> val]

\* for col in expected_pos_headers: ... subdict[col] = float(val_str)
RowSubdict(row) ==
    [col \in {c \in Range(expected_pos_headers) : row.cells[c].kind = "num"}
        |-> PyValue("float", row.cells[col].val)]

\* for row in reader: ... ranges[stack_val] = subdict
RECURSIVE ParseRows(_, _)
ParseRows(rows, ranges) ==
    IF rows = <<>> THEN ranges
    ELSE LET row == rows[1]
         IN  IF row.Stack.kind # "num" THEN ParseRows(Tail(rows), ranges)
             ELSE ParseRows(Tail(rows), DictSet(ranges, row.Stack.val, RowSubdict(row)))

parse_push_fold_csv(csv_data) ==
    IF ~csv_data.has_stack_header THEN EmptyDict
    ELSE ParseRows(csv_data.rows, EmptyDict)

\* The module-level load: the table stays {} when the file is missing or parses to {}.
LoadPushFoldRanges(csv_file) ==
    IF ~csv_file.is_file THEN EmptyDict
    ELSE LET loaded == parse_push_fold_csv(csv_file)
         IN  IF loaded # EmptyDict THEN loaded ELSE EmptyDict

\* sorted(PUSH_FOLD_RANGES.keys())
RECURSIVE SortedInts(_)
SortedInts(S) ==
    IF S = {} THEN <<>>
    ELSE LET m == CHOOSE x \in S : \A y \in S : x <= y
         IN  <<m>> \o SortedInts(S \ {m})

Abs(x) == IF x < 0 THEN -x ELSE x

\* min(stack_keys, key=lambda x: abs(x - stack_bb)): the first key of least distance
\* (the variant below keeps the last one).
RECURSIVE MinByDistanceLast(_, _, _)
MinByDistanceLast(stack_keys, target, best) ==
    IF stack_keys = <<>> THEN best
    ELSE IF Abs(stack_keys[1] - target) <= Abs(best - target)
    THEN MinByDistanceLast(Tail(stack_keys), target, stack_keys[1])
    ELSE MinByDistanceLast(Tail(stack_keys), target, best)

RECURSIVE MinByDistance(_, _, _)
MinByDistance(stack_keys, target, best) ==
    IF stack_keys = <<>> THEN best
    ELSE IF Abs(stack_keys[1] - target) < Abs(best - target)
    THEN MinByDistance(Tail(stack_keys), target, stack_keys[1])
    ELSE MinByDistance(Tail(stack_keys), target, best)

\* An f-string: its text with the placeholders left in, and the numbers formatted
\* with :.1f, in tenths.
Text(fmt, args) == [fmt |-> fmt, args |-> args]

\* f"{x:.1f}" of n/d: the nearest tenth, a tie going to the even one.
FormatF1(n, d) ==
    LET twice == 2 * 10 * n
        low == twice \div (2 * d)
    IN  IF (twice + d) % (2 * d) = 0
        THEN IF low % 2 = 0 THEN low ELSE low + 1
        ELSE (twice + d) \div (2 * d)

AdviceResult(advice_str, range_list, pct, tips_str) ==
    [advice_str |-> advice_str, range_list |-> range_list,
     percentage |-> pct, tips_str |-> tips_str]

\* stack_bb passes the first test of get_push_fold_advice (the variant admits 0).
ValidStackAdmitsZero(stack) == IsIntOrFloat(stack) /\ stack.val >= 0

ValidStack(stack) == IsIntOrFloat(stack) /\ stack.val > 0

ValidPosition(pos) == pos \in Range(expected_pos_headers)

\* percentage is None (the variant is the truth test "not percentage", which also
\* takes a stored 0 for missing).
PercentageIsFalsy(pct) == pct = None \/ pct.val = 0

PercentageIsNone(pct) == pct = None

ValidPlayersLeft(players) == IsInt(players) /\ players.val >= 2 /\ players.val <= 10

get_push_fold_advice(table, stack, pos, players) ==
    IF ~ValidStack(stack)
    THEN AdviceResult(Text("Error: Invalid Stack Size.", <<>>), <<>>, None,
                      Text("No tips - invalid stack.", <<>>))
    ELSE IF table = EmptyDict
    THEN AdviceResult(Text("Error: 'push ranges.csv' data not loaded.", <<>>), <<>>, None,
                      Text("No tips - data missing.", <<>>))
    ELSE IF ~ValidPosition(pos)
    THEN AdviceResult(Text("Error: Invalid position '{position}'.", <<>>), <<>>, None,
                      Text("No tips - invalid position.", <<>>))
    ELSE IF ~ValidPlayersLeft(players)
    THEN AdviceResult(Text("Error: Invalid players_left (2-10).", <<>>), <<>>, None,
                      Text("No tips - invalid player count.", <<>>))
    ELSE LET stack_keys == SortedInts(DOMAIN table)
         IN  IF stack_keys = <<>>
             THEN AdviceResult(Text("Error: No stack data found in memory.", <<>>), <<>>,
                               None, Text("No tips - no data.", <<>>))
             ELSE LET closest_stack == MinByDistance(stack_keys, stack.val, stack_keys[1])
                      data_for_stack == table[closest_stack]
                      pct == DictGet(data_for_stack, pos)
                  IN  IF PercentageIsNone(pct)
                      THEN AdviceResult(
                               Text("Error: Position '{position}' not found for stack={closest_stack}BB.",
                                    <<10 * closest_stack>>),
                               <<>>, None, Text("No tips - data mismatch.", <<>>))
                      ELSE IF ~IsIntOrFloat(pct)
                      THEN AdviceResult(
                               Text("Error: Invalid percentage for pos='{position}', stack={closest_stack}BB => {percentage}",
                                    <<10 * closest_stack>>),
                               <<>>, None, Text("No tips - data mismatch.", <<>>))
                      ELSE AdviceResult(
                               Text("Push top {percentage:.1f}%",
                                    <<FormatF1(pct.val, UnitsPerPercent)>>),
                               get_top_hands_by_percentage(pct),
                               pct,
                               Text("At ~{closest_stack:.1f}BB in {position}, pushing around {percentage:.1f}% of hands is suggested. Adjust for ICM or if players are calling more tightly/loosely.",
                                    <<10 * closest_stack, FormatF1(pct.val, UnitsPerPercent)>>))

\* The list object get_push_fold_advice returns as range_list: a [] of its own on an
\* error return, else what get_top_hands_by_percentage returned.
RangeListObject(result) ==
    IF result.percentage = None THEN NewList ELSE TopHandsObject(result.percentage)

(***************************************************************************)
(* The equity engine: calculate_hand_vs_range_equity of poker_logic_bkp.py,*)
(* which simulates every street the board has reached.  A card is the two  *)
(* characters Card.new is given.                                           *)
(***************************************************************************)
max_attempts_multiplier == 5

STREETS == <<"preflop", "flop", "turn", "river">>

HasDuplicates(cards) == Cardinality(Range(cards)) # Len(cards)

\* 'AsKh' -> [As, Kh]; None (here <<>>) unless there are four characters
hand_string_to_treys_cards(hand_str) ==
    IF Len(hand_str) # 4 THEN <<>>
    ELSE <<SubSeq(hand_str, 1, 2), SubSeq(hand_str, 3, 4)>>

\* Two-character entries become cards and empty entries are passed over; the result
\* is valid unless some other entry is met.
board_string_to_treys_cards(board_list) ==
    [valid |-> \A i \in DOMAIN board_list : Len(board_list[i]) \in {0, 2},
     cards |-> SelectSeq(board_list, LAMBDA card_str : Len(card_str) = 2)]

\* itertools.combinations(range(n), 2) and the pairs of two nested loops over range(n),
\* as positions in SUITS_TREYS
IndexPairs(n) == [k \in 1..(n * n) |-> <<((k - 1) \div n) + 1, ((k - 1) % n) + 1>>]

Combinations2(n) == SelectSeq(IndexPairs(n), LAMBDA pr : pr[1] < pr[2])

\* A variant that lets the two suits of an offsuit combo be the same.
DistinctPairs_any(n) == IndexPairs(n)

DistinctPairs(n) == SelectSeq(IndexPairs(n), LAMBDA pr : pr[1] # pr[2])

\* The combos one entry of the range list adds.
HandStrCombos(hand_str) ==
    IF Len(hand_str) = 2
    THEN IF ~InRanks(hand_str[1]) THEN <<>>
         ELSE LET pairs == Combinations2(Len(SUITS_TREYS))
              IN  [k \in DOMAIN pairs |->
                      <<<<hand_str[1], SUITS_TREYS[pairs[k][1]]>>,
                        <<hand_str[1], SUITS_TREYS[pairs[k][2]]>>>>]
    ELSE IF Len(hand_str) = 3
    THEN IF ~InRanks(hand_str[1]) \/ ~InRanks(hand_str[2]) THEN <<>>
         ELSE IF hand_str[3] = "s"
         THEN [k \in DOMAIN SUITS_TREYS |->
                  <<<<hand_str[1], SUITS_TREYS[k]>>, <<hand_str[2], SUITS_TREYS[k]>>>>]
         ELSE IF hand_str[3] = "o"
         THEN LET pairs == DistinctPairs(Len(SUITS_TREYS))
              IN  [k \in DOMAIN pairs |->
                      <<<<hand_str[1], SUITS_TREYS[pairs[k][1]]>>,
                        <<hand_str[2], SUITS_TREYS[pairs[k][2]]>>>>]
         ELSE <<>>
    ELSE <<>>

\* for hand_str in hand_range_list: the combos of the entries, in the order of the
\* list (the list is halved to keep the evaluation shallow on the whole ranking).
RECURSIVE generate_combos(_)
generate_combos(hand_range_list) ==
    IF hand_range_list = <<>> THEN <<>>
    ELSE IF Len(hand_range_list) = 1 THEN HandStrCombos(hand_range_list[1])
    ELSE LET mid == Len(hand_range_list) \div 2
         IN  generate_combos(SubSeq(hand_range_list, 1, mid))
                 \o generate_combos(SubSeq(hand_range_list, mid + 1, Len(hand_range_list)))

\* The input validation: TRUE when the call returns None before any street is run.
RejectsInputs(hero_str, range_list, board_list) ==
    LET hero_cards == hand_string_to_treys_cards(hero_str)
        board == board_string_to_treys_cards(board_list)
    IN  \/ range_list = <<>>
        \/ hero_cards = <<>>
        \/ Cardinality(Range(hero_cards)) # 2
        \/ ~board.valid
        \/ Len(board.cards) > 5
        \/ HasDuplicates(board.cards)
        \/ HasDuplicates(hero_cards \o board.cards)
        \/ generate_combos(range_list) = <<>>

initial_final_results_zero == [street \in Range(STREETS) |-> PyValue("float", 0)]

initial_final_results == [street \in Range(STREETS) |-> None]

initial_street_results ==
    [street \in Range(STREETS) |-> [wins |-> 0, ties |-> 0, total |-> 0]]

streets_to_simulate(board_cards) ==
    <<"preflop">>
    \o (IF Len(board_cards) >= 3 THEN <<"flop">> ELSE <<>>)
    \o (IF Len(board_cards) >= 4 THEN <<"turn">> ELSE <<>>)
    \o (IF Len(board_cards) = 5 THEN <<"river">> ELSE <<>>)

\* The board a street is simulated on (the variant takes the whole board on every
\* street).
current_board_whole(street, board_cards) == board_cards

current_board(street, board_cards) ==
    IF street = "flop" THEN SubSeq(board_cards, 1, 3)
    ELSE IF street = "turn" THEN SubSeq(board_cards, 1, 4)
    ELSE IF street = "river" THEN SubSeq(board_cards, 1, 5)
    ELSE <<>>

\* The cards known on a street (the variant leaves hero's hand out).
street_known_cards_board_only(hero_cards, street_board) == street_board

street_known_cards(hero_cards, street_board) == hero_cards \o street_board

\* The dead-card filter left out: every combo of the range stays.
street_villain_combos_unfiltered(villain_combos_all, known_cards) == villain_combos_all

\* The dead-card filter (the variant drops a combo for sharing a rank with a known card).
street_villain_combos_by_rank(villain_combos_all, known_cards) ==
    SelectSeq(villain_combos_all,
              LAMBDA combo : /\ \A i \in DOMAIN combo :
                                    \A j \in DOMAIN known_cards : combo[i][1] # known_cards[j][1]
                             /\ Cardinality(Range(combo)) = 2)

street_villain_combos(villain_combos_all, known_cards) ==
    SelectSeq(villain_combos_all,
              LAMBDA combo : /\ \A i \in DOMAIN combo : combo[i] \notin Range(known_cards)
                             /\ Cardinality(Range(combo)) = 2)

\* Deck(): the 52 cards; the order they are dealt in is random.
Deck == [k \in 1..(Len(RANKS) * Len(SUITS_TREYS)) |->
            <<RANKS[((k - 1) \div Len(SUITS_TREYS)) + 1],
              SUITS_TREYS[((k - 1) % Len(SUITS_TREYS)) + 1]>>]

\* What deck.draw(n) can deal, as positions in the deck: the order of the deck is
\* random, and of the deals it allows the runs of n cards that begin at one of the
\* first DrawSlack + 1 positions are followed.
DealChoices(n) == {[i \in 1..n |-> first + i] : first \in 0..DrawSlack}

NoTrial == [chosen_villain_hand |-> <<>>, board_run |-> <<>>]

\* What the evaluator can make of a trial: hero's score is better, equal or worse,
\* or evaluate raises.
EvaluatorOutcomes == {"hero", "tie", "villain", "raises"}

\* One pass of the while loop with the random choices made.  evaluated is TRUE
\* when the pass reaches the tally.
Attempt(hero_cards, street_board, villain_hand, deal, outcome) ==
    LET known == street_known_cards(hero_cards, street_board)
        runout_dead_cards == known \o villain_hand
        deck_cards == SelectSeq(Deck, LAMBDA card : card \notin Range(runout_dead_cards))
        cards_needed == 5 - Len(street_board)
        skipped == [evaluated |-> FALSE, board_run |-> <<>>]
    IN  IF HasDuplicates(runout_dead_cards) THEN skipped
        ELSE IF cards_needed < 0 THEN skipped
        ELSE IF cards_needed > 0 /\ Len(deck_cards) < cards_needed THEN skipped
        ELSE LET drawn == IF cards_needed > 0
                          THEN [i \in 1..cards_needed |-> deck_cards[deal[i]]]
                          ELSE <<>>
                 run == street_board \o drawn
             IN  IF Len(run) # 5
                 THEN skipped
                 ELSE IF \/ Cardinality(Range(hero_cards \o run)) # 7
                         \/ Cardinality(Range(villain_hand \o run)) # 7
                 THEN skipped
                 ELSE [evaluated |-> outcome # "raises", board_run |-> run]

\* The tally of a street after one more evaluated trial (the variant counts a tie as
\* a win as well).
Tally_tie_as_win(result, outcome) ==
    [wins |-> result.wins + (IF outcome \in {"hero", "tie"} THEN 1 ELSE 0),
     ties |-> result.ties + (IF outcome = "tie" THEN 1 ELSE 0),
     total |-> result.total + 1]

Tally(result, outcome) ==
    [wins |-> result.wins + (IF outcome = "hero" THEN 1 ELSE 0),
     ties |-> result.ties + (IF outcome = "tie" THEN 1 ELSE 0),
     total |-> result.total + 1]

\* The street's entry of final_results once its loop has ended.
StreetFinalResult(result, successful, attempts, old) ==
    IF result.total > 0
    THEN PyValue("float",
                 ((2 * result.wins + result.ties) * 100 * UnitsPerPercent)
                     \div (2 * result.total))
    ELSE IF successful = 0 /\ attempts > simulations * max_attempts_multiplier
    THEN PyValue("float", 0)
    ELSE old

(***************************************************************************)
(* Range notation codec.                                                   *)
(***************************************************************************)
\* [f(x) for x in seq if keep(x)] helpers of format_range_to_text's grouping loop:
\* the hand[0] of every 2-character hand, in the order of the sorted list.
RECURSIVE PairRanksOf(_)
PairRanksOf(hands) ==
    IF hands = <<>> THEN <<>>
    ELSE (IF Len(hands[1]) = 2 THEN <<hands[1][1]>> ELSE <<>>) \o PairRanksOf(Tail(hands))

\* the dict suited / offsuit of the grouping loop: first card -> list of second cards
RECURSIVE SecondCardsOf(_, _, _)
SecondCardsOf(hands, first, kind) ==
    IF hands = <<>> THEN <<>>
    ELSE (IF Len(hands[1]) # 2 /\ hands[1][Len(hands[1])] = kind /\ hands[1][1] = first
          THEN <<hands[1][2]>> ELSE <<>>) \o SecondCardsOf(Tail(hands), first, kind)

FirstCardsOf(hands, kind) ==
    {hands[i][1] : i \in {j \in DOMAIN hands :
                            Len(hands[j]) # 2 /\ hands[j][Len(hands[j])] = kind}}

\* sorted(second_cards, key=lambda x: RANKS.index(x)): stable insertion sort
RECURSIVE InsertByRankIndex(_, _)
InsertByRankIndex(sorted, x) ==
    IF sorted = <<>> THEN <<x>>
    ELSE IF RankIndex(x) < RankIndex(sorted[1]) THEN <<x>> \o sorted
    ELSE <<sorted[1]>> \o InsertByRankIndex(Tail(sorted), x)

RECURSIVE SortByRankIndex(_)
SortByRankIndex(cards) ==
    IF cards = <<>> THEN <<>>
    ELSE InsertByRankIndex(SortByRankIndex(SubSeq(cards, 1, Len(cards) - 1)),
                           cards[Len(cards)])

\* The three-way emission of one run of pairs (the variant writes only the first
\* pair of a run of two).
EmitPairRun_first_of_two(current_range) ==
    LET n == Len(current_range)
    IN  IF n > 2
        THEN << <<current_range[n], current_range[n], "-",
                  current_range[1], current_range[1]>> >>
        ELSE << <<current_range[1], current_range[1]>> >>

\* The three-way emission of one run of pairs (current_range).
EmitPairRun(current_range) ==
    LET n == Len(current_range)
    IN  IF n > 2
        THEN << <<current_range[n], current_range[n], "-",
                  current_range[1], current_range[1]>> >>
        ELSE IF n = 2
        THEN [i \in 1..2 |-> <<Reversed(current_range)[i], Reversed(current_range)[i]>>]
        ELSE << <<current_range[1], current_range[1]>> >>

\* for i in range(1, len(pairs)): ... ; then the last run. i is the 1-based index.
RECURSIVE PairsLoop(_, _, _, _)
PairsLoop(pairs, i, current_range, result) ==
    IF i > Len(pairs) THEN result \o EmitPairRun(current_range)
    ELSE IF RankIndex(pairs[i]) # RankIndex(pairs[i - 1]) - 1
    THEN PairsLoop(pairs, i + 1, <<pairs[i]>>, result \o EmitPairRun(current_range))
    ELSE PairsLoop(pairs, i + 1, Append(current_range, pairs[i]), result)

\* One first card's tokens: a dashed token when it has more than two second cards.
GroupTokens(first_card, second_cards, kind) ==
    LET n == Len(second_cards)
    IN  IF n > 2
        THEN << <<first_card, second_cards[n], kind, "-",
                  first_card, second_cards[1], kind>> >>
        ELSE [i \in 1..n |-> <<first_card, Reversed(second_cards)[i], kind>>]

\* for first_card in sorted(suited.keys()): ...
RECURSIVE GroupsLoop(_, _, _)
GroupsLoop(hands, keys, kind) ==
    IF keys = <<>> THEN <<>>
    ELSE GroupTokens(keys[1], SortByRankIndex(SecondCardsOf(hands, keys[1], kind)), kind)
         \o GroupsLoop(hands, Tail(keys), kind)

format_range_to_text(selected_hands_set) ==
    IF selected_hands_set = {} THEN <<>>
    ELSE LET hands == SortedStrs(selected_hands_set)
             pairs == PairRanksOf(hands)
             pair_tokens == IF pairs # <<>> THEN PairsLoop(pairs, 2, <<pairs[1]>>, <<>>)
                            ELSE <<>>
             result == pair_tokens
                       \o GroupsLoop(hands, SortedChars(FirstCardsOf(hands, "s")), "s")
                       \o GroupsLoop(hands, SortedChars(FirstCardsOf(hands, "o")), "o")
         IN  Join(",", result)

_normalize_card_notation(raw_card_str) ==
    LET raw == Strip(raw_card_str)
        n == Len(raw)
    IN  IF n >= 3 /\ LowerChar(raw[n]) \in {"s", "o"}
        THEN Upper(SubSeq(raw, 1, n - 1)) \o <<LowerChar(raw[n])>>
        ELSE Upper(raw)

_is_pair_str(s) == Len(s) = 2 /\ s[1] = s[2]

_is_suited_offsuit_str(s) == Len(s) = 3 /\ s[3] \in {"s", "o"}

\* The classes each expansion helper adds to hands_set.  Each helper is preceded by a
\* variant of it: without the swap of reversed endpoints, or widening the other way.
parse_dashed_pairs_range_no_swap(start_pair, end_pair, all_hands_list) ==
    IF ~InRanks(start_pair[1]) \/ ~InRanks(end_pair[1]) THEN {}
    ELSE {<<RANKS[i + 1], RANKS[i + 1]>> :
             i \in RankIndex(start_pair[1])..RankIndex(end_pair[1])} \cap all_hands_list

parse_dashed_pairs_range(start_pair, end_pair, all_hands_list) ==
    IF ~InRanks(start_pair[1]) \/ ~InRanks(end_pair[1]) THEN {}
    ELSE LET a == RankIndex(start_pair[1])
             b == RankIndex(end_pair[1])
             start_idx == IF a > b THEN b ELSE a
             end_idx == IF a > b THEN a ELSE b
         IN  {<<RANKS[i + 1], RANKS[i + 1]>> : i \in start_idx..end_idx} \cap all_hands_list

parse_dashed_combo_range_no_swap(start_str, end_str, all_hands_list) ==
    IF start_str[1] # end_str[1] \/ start_str[3] # end_str[3] THEN {}
    ELSE IF ~InRanks(start_str[2]) \/ ~InRanks(end_str[2]) THEN {}
    ELSE {<<start_str[1], RANKS[i + 1], start_str[3]>> :
             i \in RankIndex(start_str[2])..RankIndex(end_str[2])} \cap all_hands_list

parse_dashed_combo_range(start_str, end_str, all_hands_list) ==
    LET sr1 == start_str[1]
        sr2 == start_str[2]
        stype == start_str[3]
        er1 == end_str[1]
        er2 == end_str[2]
        etype == end_str[3]
    IN  IF sr1 # er1 \/ stype # etype THEN {}
        ELSE IF ~InRanks(sr2) \/ ~InRanks(er2) THEN {}
        ELSE LET a == RankIndex(sr2)
                 b == RankIndex(er2)
                 start_idx == IF a > b THEN b ELSE a
                 end_idx == IF a > b THEN a ELSE b
             IN  {<<sr1, RANKS[i + 1], stype>> : i \in start_idx..end_idx}
                 \cap all_hands_list

parse_pairs_plus_downward(pair_str, all_hands_list) ==
    IF ~InRanks(pair_str[1]) THEN {}
    ELSE {<<RANKS[i + 1], RANKS[i + 1]>> : i \in RankIndex(pair_str[1])..(Len(RANKS) - 1)}
         \cap all_hands_list

parse_pairs_plus(pair_str, all_hands_list) ==
    IF ~InRanks(pair_str[1]) THEN {}
    ELSE {<<RANKS[i + 1], RANKS[i + 1]>> : i \in 0..RankIndex(pair_str[1])}
         \cap all_hands_list

parse_suited_offsuit_plus_upward(base_str, all_hands_list) ==
    IF ~InRanks(base_str[2]) THEN {}
    ELSE {<<base_str[1], RANKS[i + 1], base_str[3]>> : i \in 0..RankIndex(base_str[2])}
         \cap all_hands_list

parse_suited_offsuit_plus(base_str, all_hands_list) ==
    LET rank1 == base_str[1]
        rank2 == base_str[2]
        ctype == base_str[3]
    IN  IF ~InRanks(rank2) THEN {}
        ELSE {<<rank1, RANKS[i + 1], ctype>> : i \in RankIndex(rank2)..(Len(RANKS) - 1)}
             \cap all_hands_list

\* The body of parse_range_text's loop for one non-empty stripped token.
ParsePart(raw_part, all_hands_list) ==
    LET part == _normalize_card_notation(raw_part)
    IN  IF part \in all_hands_list THEN {part}
        ELSE IF Len(part) = 2 /\ part[1] # part[2]
        THEN {part \o <<"s">>, part \o <<"o">>} \cap all_hands_list
        ELSE IF Len(part) = 2 /\ part[1] = part[2]
        THEN {part} \cap all_hands_list
        ELSE IF "-" \in Range(part)
        THEN LET i == FirstIndexOf(part, "-")
                 start_str == _normalize_card_notation(SubSeq(part, 1, i - 1))
                 end_str == _normalize_card_notation(SubSeq(part, i + 1, Len(part)))
             IN  IF _is_pair_str(start_str) /\ _is_pair_str(end_str)
                 THEN parse_dashed_pairs_range(start_str, end_str, all_hands_list)
                 ELSE IF _is_suited_offsuit_str(start_str) /\ _is_suited_offsuit_str(end_str)
                 THEN parse_dashed_combo_range(start_str, end_str, all_hands_list)
                 ELSE {}
        ELSE IF part # <<>> /\ part[Len(part)] = "+"
        THEN LET base == _normalize_card_notation(SubSeq(part, 1, Len(part) - 1))
             IN  IF _is_pair_str(base) THEN parse_pairs_plus(base, all_hands_list)
                 ELSE IF _is_suited_offsuit_str(base)
                 THEN parse_suited_offsuit_plus(base, all_hands_list)
                 ELSE {}
        ELSE {}

\* parts = [h.strip() for h in range_text.split(',') if h.strip()]
RECURSIVE StrippedParts(_)
StrippedParts(fields) ==
    IF fields = <<>> THEN <<>>
    ELSE (IF Strip(fields[1]) # <<>> THEN <<Strip(fields[1])>> ELSE <<>>)
         \o StrippedParts(Tail(fields))

\* The variant gives up on the whole text when one token adds nothing.
parse_range_text_all_or_nothing(text) ==
    LET parts == StrippedParts(Split(text, ","))
    IN  IF \E i \in DOMAIN parts : ParsePart(parts[i], get_all_hands) = {} THEN {}
        ELSE UNION {ParsePart(parts[i], get_all_hands) : i \in DOMAIN parts}

parse_range_text(text) ==
    LET parts == StrippedParts(Split(text, ","))
    IN  UNION {ParsePart(parts[i], get_all_hands) : i \in DOMAIN parts}

(***************************************************************************)
(* The range grid and its text entry: a selection is copied out as text    *)
(* (format_range_to_text) and the text is imported back (parse_range_text).*)
(***************************************************************************)
InputRanks == {RANKS[1]} \cup {RANKS[i] : i \in (Len(RANKS) - NumLowRanks + 1)..Len(RANKS)}

InputHands == {h \in get_all_hands : h[1] \in InputRanks /\ h[2] \in InputRanks}

RECURSIVE SubsetsUpTo(_, _)
SubsetsUpTo(S, n) ==
    IF n = 0 THEN {{}}
    ELSE LET smaller == SubsetsUpTo(S, n - 1)
         IN  smaller \cup {T \cup {x} : <<T, x>> \in smaller \X S}

CodecIdle ==
    /\ selected_hands = {}
    /\ range_text = <<>>
    /\ parsed_hands = {}
    /\ codec_pc = "idle"

TopIdle ==
    /\ percentage = None
    /\ top_hands = <<>>
    /\ prev_percentage = None
    /\ prev_top_hands = <<>>
    /\ top_pc = "idle"

NoResult == AdviceResult(Text("", <<>>), <<>>, None, Text("", <<>>))

AdviceIdle ==
    /\ PUSH_FOLD_RANGES = EmptyDict
    /\ stack_bb = None
    /\ position = ""
    /\ players_left = None
    /\ advice_result = NoResult
    /\ advice_pc = "idle"

EquityIdle ==
    /\ hero_hand_str = <<>>
    /\ villain_range_list = <<>>
    /\ board_str_list = <<>>
    /\ street_idx = 0
    /\ sim_count = 0
    /\ successful_sims = 0
    /\ street_results = initial_street_results
    /\ final_results = initial_final_results
    /\ tallied_trial = NoTrial
    /\ equity_pc = "idle"
    /\ equity_return = "none"

\* The trainer has not been opened: st.session_state holds no quiz.
TrainerIdle == session_state = [quiz_started |-> FALSE]

\* The module has been imported: the ranking is as written, nobody holds it.
ModuleLoaded ==
    /\ ranking_list = SIMPLIFIED_HAND_RANKING
    /\ ranking_aliases = {}

CodecInit ==
    /\ selected_hands \in SubsetsUpTo(InputHands, MaxSelected)
    /\ range_text = <<>>
    /\ parsed_hands = {}
    /\ codec_pc = "selected"
    /\ TopIdle
    /\ AdviceIdle
    /\ EquityIdle
    /\ ModuleLoaded
    /\ TrainerIdle

\* HandVsRangeFrame._copy_range: the selection's text goes to the text entry.
CopyRange ==
    /\ codec_pc = "selected"
    /\ range_text' = format_range_to_text(selected_hands)
    /\ codec_pc' = "copied"
    /\ UNCHANGED <<selected_hands, parsed_hands, top_vars, advice_vars, equity_vars, module_vars, trainer_vars>>

\* HandVsRangeFrame._import_range: the text entry is parsed.
ImportRange ==
    /\ codec_pc \in {"copied", "typed"}
    /\ parsed_hands' = parse_range_text(range_text)
    /\ codec_pc' = IF codec_pc = "copied" THEN "imported" ELSE "parsed"
    /\ UNCHANGED <<selected_hands, range_text, top_vars, advice_vars, equity_vars, module_vars, trainer_vars>>

CodecNext == CopyRange \/ ImportRange

SpecCodec == CodecInit /\ [][CodecNext]_vars

\* C1: round trip. Whenever a selection has been formatted and the text parsed back,
\* the parsed set equals the selection: parse_range_text(format_range_to_text(S)) = S.
RoundTrip ==
    codec_pc = "imported" => parsed_hands = selected_hands

(***************************************************************************)
(* A caller of get_top_hands_by_percentage: each call keeps the call       *)
(* before it, so that two results can be compared.                         *)
(***************************************************************************)
PercentInputs ==
    {PyValue("int", k * 5 * UnitsPerPercent) : k \in (-1..21) \cup {30}}
    \cup {PyValue("float", c * ((100 * UnitsPerPercent) \div TOTAL_COMBOS))
          : c \in 1..MaxExactCombos}
    \cup {Percent(508), Percent(5), None, PyValue("str", 0)}

TopInit ==
    /\ percentage = None
    /\ top_hands = <<>>
    /\ prev_percentage = None
    /\ prev_top_hands = <<>>
    /\ top_pc = "start"
    /\ CodecIdle
    /\ AdviceIdle
    /\ EquityIdle
    /\ ModuleLoaded
    /\ TrainerIdle

QueryTop ==
    /\ top_pc \in {"start", "called"}
    /\ \E q \in PercentInputs :
        /\ percentage' = q
        /\ top_hands' = get_top_hands_by_percentage(q)
        /\ ranking_aliases' = Rebind(ranking_aliases, "top_hands", TopHandsObject(q))
    /\ prev_percentage' = percentage
    /\ prev_top_hands' = top_hands
    /\ top_pc' = IF top_pc = "start" THEN "called" ELSE "twice"
    /\ UNCHANGED <<codec_vars, advice_vars, equity_vars, ranking_list, trainer_vars>>

TopNext == QueryTop

SpecTop == TopInit /\ [][TopNext]_vars

\* Combo weight of the classes at positions lo..hi of the ranking.
RECURSIVE RangeWeight(_, _)
RangeWeight(lo, hi) ==
    IF lo > hi THEN 0
    ELSE IF lo = hi THEN get_hand_combos(SIMPLIFIED_HAND_RANKING[lo])
    ELSE LET mid == (lo + hi) \div 2
         IN  RangeWeight(lo, mid) + RangeWeight(mid + 1, hi)

\* Combo weight of the first n classes of the ranking.
PrefixWeight(n) == RangeWeight(1, n)

ReachesTarget(n, pct) ==
    PrefixWeight(n) * 100 * UnitsPerPercent >= TOTAL_COMBOS * pct.val

InOpenRange(pct) ==
    IsIntOrFloat(pct) /\ 0 < pct.val /\ pct.val < 100 * UnitsPerPercent

IsPrefix(a, b) == Len(a) <= Len(b) /\ a = SubSeq(b, 1, Len(a))

\* C2: for 0 < p < 100 the result is the shortest prefix of the ranking whose combo
\* weight is at least 1326 * p / 100: it reaches the target, and the prefix one class
\* shorter does not.
ShortestPrefixReachingTarget ==
    (top_pc # "start" /\ InOpenRange(percentage)) =>
        /\ IsPrefix(top_hands, SIMPLIFIED_HAND_RANKING)
        /\ ReachesTarget(Len(top_hands), percentage)
        /\ Len(top_hands) > 0
        /\ ~ReachesTarget(Len(top_hands) - 1, percentage)

\* C2 witness: a call whose target is hit exactly by the crossing class.
TargetHitExactly ==
    /\ top_pc # "start"
    /\ InOpenRange(percentage)
    /\ PrefixWeight(Len(top_hands)) * 100 * UnitsPerPercent = TOTAL_COMBOS * percentage.val
    /\ Len(top_hands) > 13

\* C3: of two calls with p <= q the first result is a prefix of the second (so the
\* combo weight is non-decreasing in p); p <= 0 gives the empty list and p >= 100
\* the full ranking of 169 classes.
MonotonePrefix ==
    /\ (top_pc # "start" /\ IsIntOrFloat(percentage) /\ percentage.val <= 0)
           => top_hands = <<>>
    /\ (top_pc # "start" /\ IsIntOrFloat(percentage)
        /\ percentage.val >= 100 * UnitsPerPercent)
           => (top_hands = SIMPLIFIED_HAND_RANKING /\ Len(top_hands) = 169)
    /\ (top_pc = "twice" /\ IsIntOrFloat(percentage) /\ IsIntOrFloat(prev_percentage))
           => /\ prev_percentage.val <= percentage.val
                  => /\ IsPrefix(prev_top_hands, top_hands)
                     /\ PrefixWeight(Len(prev_top_hands)) <= PrefixWeight(Len(top_hands))
              /\ percentage.val <= prev_percentage.val
                  => IsPrefix(top_hands, prev_top_hands)

\* C3 witness: two calls p < q, the second above 100, with a strictly longer result.
GrowsToFullRanking ==
    /\ top_pc = "twice"
    /\ IsIntOrFloat(percentage) /\ IsIntOrFloat(prev_percentage)
    /\ 0 < prev_percentage.val
    /\ prev_percentage.val < percentage.val
    /\ percentage.val > 100 * UnitsPerPercent
    /\ 0 < Len(prev_top_hands)
    /\ Len(prev_top_hands) < Len(top_hands)
    /\ Len(top_hands) = 169

(***************************************************************************)
(* The push/fold table is loaded from "push ranges.csv" when the module is *)
(* imported; a caller then asks get_push_fold_advice for one spot.         *)
(***************************************************************************)
\* Stack depths of the rows of the file, in big blinds.
StackKeys == {2, 4, 8}

\* Numbers written in the SB column: 0 and 35 are percentages; 150 is a number
\* float() accepts that is not a percentage.
BaseValues == {Percent(0).val, Percent(350).val, Percent(1500).val}

\* A data row: the SB column holds base, each next column a tenth more; the columns
\* of blank are left empty and those of bad hold text that is not a number.
CsvRow(stack_cell, base, blank, bad) ==
    [Stack |-> stack_cell,
     cells |-> [col \in Range(expected_pos_headers) |->
                   IF col \in blank THEN EmptyCell
                   ELSE IF col \in bad THEN BadCell
                   ELSE NumCell(base + (FirstIndexOf(expected_pos_headers, col) - 1)
                                         * Percent(1).val)]]

CsvRows ==
    {CsvRow(stack_cell, base, cols[1], cols[2]) :
        stack_cell \in {NumCell(k) : k \in StackKeys} \cup {EmptyCell, BadCell},
        base \in BaseValues,
        cols \in {<<{}, {}>>, <<{"SB"}, {"UTG"}>>, <<Range(expected_pos_headers), {}>>}}

RECURSIVE SeqsUpTo(_, _)
SeqsUpTo(S, n) ==
    IF n = 0 THEN {<<>>}
    ELSE LET shorter == SeqsUpTo(S, n - 1)
         IN  shorter \cup {Append(q, x) : <<q, x>> \in shorter \X S}

CsvFiles ==
    {[is_file |-> FALSE, has_stack_header |-> FALSE, rows |-> <<>>],
     [is_file |-> TRUE, has_stack_header |-> FALSE, rows |-> <<>>]}
    \cup {[is_file |-> TRUE, has_stack_header |-> TRUE, rows |-> rows] :
             rows \in SeqsUpTo(CsvRows, MaxRows)}

StackRequests ==
    {PyValue("int", k) : k \in (-1)..MaxStackRequest} \cup {PyValue("str", 0), None}

PositionRequests == Range(expected_pos_headers) \cup {"BTN", "XYZ"}

PlayersLeftRequests ==
    {PyValue("int", n) : n \in {1, 2, 10, 11}} \cup {PyValue("float", 6)}

AdviceInit ==
    /\ \E csv_file \in CsvFiles : PUSH_FOLD_RANGES = LoadPushFoldRanges(csv_file)
    /\ stack_bb = None
    /\ position = ""
    /\ players_left = None
    /\ advice_result = NoResult
    /\ advice_pc = "loaded"
    /\ CodecIdle
    /\ TopIdle
    /\ EquityIdle
    /\ ModuleLoaded
    /\ TrainerIdle

GetAdvice ==
    /\ advice_pc = "loaded"
    /\ \E s \in StackRequests, p \in PositionRequests, n \in PlayersLeftRequests :
        /\ stack_bb' = s
        /\ position' = p
        /\ players_left' = n
        /\ advice_result' = get_push_fold_advice(PUSH_FOLD_RANGES, s, p, n)
        /\ ranking_aliases' =
               Rebind(ranking_aliases, "range_list",
                      RangeListObject(get_push_fold_advice(PUSH_FOLD_RANGES, s, p, n)))
    /\ advice_pc' = "returned"
    /\ UNCHANGED <<PUSH_FOLD_RANGES, codec_vars, top_vars, equity_vars, ranking_list, trainer_vars>>

AdviceNext == GetAdvice

SpecAdvice == AdviceInit /\ [][AdviceNext]_vars

\* The texts get_push_fold_advice returns as advice_str on its error returns.
ErrorAdvice ==
    {"Error: Invalid Stack Size.",
     "Error: 'push ranges.csv' data not loaded.",
     "Error: Invalid position '{position}'.",
     "Error: Invalid players_left (2-10).",
     "Error: No stack data found in memory.",
     "Error: Position '{position}' not found for stack={closest_stack}BB.",
     "Error: Invalid percentage for pos='{position}', stack={closest_stack}BB => {percentage}"}

IsErrorResult(result) == result.advice_str.fmt \in ErrorAdvice

NoPercentageNoHands(result) == result.range_list = <<>> /\ result.percentage = None

\* The request that was made passes the three input validations as the claims word them.
RequestIsValid ==
    /\ stack_bb.type \in {"int", "float"} /\ stack_bb.val > 0
    /\ players_left.type = "int" /\ 2 <= players_left.val /\ players_left.val <= 10

\* The table key nearest to depth, the smaller of two equally distant ones.
NearestKey(table, depth) ==
    CHOOSE k \in DOMAIN table :
        \A j \in DOMAIN table :
            \/ Abs(k - depth) < Abs(j - depth)
            \/ (Abs(k - depth) = Abs(j - depth) /\ k <= j)

IsPercentage(value) ==
    value.type \in {"int", "float"} /\ 0 <= value.val /\ value.val <= 100 * UnitsPerPercent

\* The seat labels of the specification and the column of the file each one reads.
SeatLabels == {"SB", "BTN", "CO", "HJ", "LJ", "UTG+3", "UTG+2", "UTG+1", "UTG"}

SeatColumn(seat) == IF seat = "BTN" THEN "B" ELSE seat

\* C7: with valid inputs and a seat the function accepts, the lookup ends in a
\* not-found error (no percentage, no hands) if the table is empty, if the nearest
\* stack row has no entry for the seat, or if the stored value is not a number
\* in 0..100.
LookupNotFound ==
    (advice_pc = "returned" /\ RequestIsValid /\ position \in Range(expected_pos_headers)) =>
        LET row == PUSH_FOLD_RANGES[NearestKey(PUSH_FOLD_RANGES, stack_bb.val)]
        IN  (\/ PUSH_FOLD_RANGES = EmptyDict
             \/ position \notin DOMAIN row
             \/ ~IsPercentage(row[position]))
                => (IsErrorResult(advice_result) /\ NoPercentageNoHands(advice_result))

\* C8: for every seat label of {SB, BTN, CO, HJ, LJ, UTG+3, UTG+2, UTG+1, UTG}, valid
\* stack depth and player count, and a nearest row that stores a percentage in the
\* seat's column, the call succeeds: the text carries the percentage rounded to one
\* decimal, the percentage returned is the stored one, and the hand list is
\* get_top_hands_by_percentage of it.
AdviceSucceedsForEverySeat ==
    (/\ advice_pc = "returned" /\ RequestIsValid /\ position \in SeatLabels
     /\ PUSH_FOLD_RANGES # EmptyDict) =>
        LET row == PUSH_FOLD_RANGES[NearestKey(PUSH_FOLD_RANGES, stack_bb.val)]
            col == SeatColumn(position)
        IN  (col \in DOMAIN row /\ IsPercentage(row[col])) =>
                /\ advice_result.advice_str =
                       Text("Push top {percentage:.1f}%",
                            <<FormatF1(row[col].val, UnitsPerPercent)>>)
                /\ advice_result.percentage = row[col]
                /\ advice_result.range_list = get_top_hands_by_percentage(row[col])

NearestStackRowUsed ==
    (/\ advice_pc = "returned" /\ RequestIsValid
     /\ position \in Range(expected_pos_headers) /\ PUSH_FOLD_RANGES # EmptyDict) =>
        LET k == NearestKey(PUSH_FOLD_RANGES, stack_bb.val)
        IN  /\ \A j \in DOMAIN PUSH_FOLD_RANGES :
                   Abs(k - stack_bb.val) <= Abs(j - stack_bb.val)
            /\ IF IsErrorResult(advice_result)
               THEN /\ advice_result.advice_str.args = <<10 * k>>
                    /\ position \notin DOMAIN PUSH_FOLD_RANGES[k]
               ELSE /\ advice_result.tips_str.args[1] = 10 * k
                    /\ advice_result.percentage = PUSH_FOLD_RANGES[k][position]

\* C10 witness: the requested depth lies midway between two keys whose rows differ,
\* and the answer is the smaller key's.
TieTakesSmallerKey ==
    /\ advice_pc = "returned" /\ RequestIsValid
    /\ position \in Range(expected_pos_headers)
    /\ \E lo \in DOMAIN PUSH_FOLD_RANGES, hi \in DOMAIN PUSH_FOLD_RANGES :
        /\ lo < hi
        /\ stack_bb.val - lo = hi - stack_bb.val
        /\ position \in DOMAIN PUSH_FOLD_RANGES[lo]
        /\ position \in DOMAIN PUSH_FOLD_RANGES[hi]
        /\ PUSH_FOLD_RANGES[lo][position] # PUSH_FOLD_RANGES[hi][position]
        /\ advice_result.percentage = PUSH_FOLD_RANGES[lo][position]
        /\ advice_result.tips_str.args[1] = 10 * lo

(***************************************************************************)
(* One call of calculate_hand_vs_range_equity, followed street by street   *)
(* and attempt by attempt.                                                 *)
(***************************************************************************)
HeroHands == {<<"A","s","A","h">>, <<"A","s","A","s">>, <<"A","s","K">>}

Boards ==
    LET runout == <<<<"K","d">>, <<"K","c">>, <<"K","s">>, <<"Q","s">>, <<"Q","h">>>>
    IN  {SubSeq(runout, 1, n) : n \in 0..Len(runout)}
        \cup {<<<<"A","d">>, <<"K","h">>, <<"Q","c">>>>,
              <<<<"A","s">>, <<"K","c">>, <<"Q","s">>>>,
              <<<<"K","c">>, <<"K","c">>, <<"Q","s">>>>,
              <<<<"K","c">>, <<"K">>, <<"Q","s">>>>}

VillainRanges ==
    {<<>>, <<<<"X","X">>>>, <<<<"A","A">>>>, <<<<"K","K">>>>, <<<<"A","K","s">>>>}

EquityInit ==
    /\ hero_hand_str \in HeroHands
    /\ villain_range_list \in VillainRanges
    /\ board_str_list \in Boards
    /\ street_idx = 0
    /\ sim_count = 0
    /\ successful_sims = 0
    /\ street_results = initial_street_results
    /\ final_results = initial_final_results
    /\ tallied_trial = NoTrial
    /\ equity_pc = "called"
    /\ equity_return = "none"
    /\ CodecIdle
    /\ TopIdle
    /\ AdviceIdle
    /\ ModuleLoaded
    /\ TrainerIdle

hero_cards == hand_string_to_treys_cards(hero_hand_str)

board_cards == board_string_to_treys_cards(board_str_list).cards

villain_combos_all == generate_combos(villain_range_list)

\* The street the for loop is at, and what is fixed for it.
street == streets_to_simulate(board_cards)[street_idx]

StreetBoard == current_board(street, board_cards)

StreetCombos ==
    street_villain_combos(villain_combos_all, street_known_cards(hero_cards, StreetBoard))

BailOut == sim_count > simulations * max_attempts_multiplier /\ successful_sims = 0

\* The input validation fails: the call returns None.
RejectCall ==
    /\ equity_pc = "called"
    /\ RejectsInputs(hero_hand_str, villain_range_list, board_str_list)
    /\ equity_pc' = "returned"
    /\ equity_return' = "None"
    /\ UNCHANGED <<equity_args, street_idx, sim_count, successful_sims, street_results,
                   final_results, tallied_trial>>
    /\ UNCHANGED <<codec_vars, top_vars, advice_vars, module_vars, trainer_vars>>

\* The inputs pass: the for loop over the streets begins.
AcceptCall ==
    /\ equity_pc = "called"
    /\ ~RejectsInputs(hero_hand_str, villain_range_list, board_str_list)
    /\ equity_pc' = "for_street"
    /\ final_results' = initial_final_results
    /\ street_results' = initial_street_results
    /\ street_idx' = 1
    /\ UNCHANGED <<equity_args, sim_count, successful_sims, tallied_trial, equity_return>>
    /\ UNCHANGED <<codec_vars, top_vars, advice_vars, module_vars, trainer_vars>>

\* No villain combo is left for the street: continue with the next street.
SkipStreet ==
    /\ equity_pc = "for_street"
    /\ street_idx <= Len(streets_to_simulate(board_cards))
    /\ StreetCombos = <<>>
    /\ sim_count' = 0
    /\ successful_sims' = 0
    /\ tallied_trial' = NoTrial
    /\ street_idx' = street_idx + 1
    /\ UNCHANGED <<equity_args, street_results, final_results, equity_pc, equity_return>>
    /\ UNCHANGED <<codec_vars, top_vars, advice_vars, module_vars, trainer_vars>>

\* Some villain combos are left: the while loop of the street is entered.
EnterStreet ==
    /\ equity_pc = "for_street"
    /\ street_idx <= Len(streets_to_simulate(board_cards))
    /\ StreetCombos # <<>>
    /\ sim_count' = 0
    /\ successful_sims' = 0
    /\ tallied_trial' = NoTrial
    /\ equity_pc' = "while_sims"
    /\ UNCHANGED <<equity_args, street_idx, street_results, final_results, equity_return>>
    /\ UNCHANGED <<codec_vars, top_vars, advice_vars, module_vars, trainer_vars>>

\* One pass of the while loop.
Trial ==
    /\ equity_pc = "while_sims"
    /\ successful_sims < simulations
    /\ ~BailOut
    /\ sim_count < simulations * max_attempts_multiplier + 1 + MaxExtraAttempts
    /\ sim_count' = sim_count + 1
    /\ LET hero == hero_cards
           street_board == StreetBoard
           combos == StreetCombos
       IN  \E c \in DOMAIN combos, deal \in DealChoices(5 - Len(street_board)),
              outcome \in EvaluatorOutcomes :
               LET attempt == Attempt(hero, street_board, combos[c], deal, outcome)
               IN  IF attempt.evaluated
                   THEN /\ successful_sims' = successful_sims + 1
                        /\ street_results' =
                               [street_results EXCEPT ![street] = Tally(@, outcome)]
                        /\ tallied_trial' = [chosen_villain_hand |-> combos[c],
                                             board_run |-> attempt.board_run]
                   ELSE UNCHANGED <<successful_sims, street_results, tallied_trial>>
    /\ UNCHANGED <<equity_args, street_idx, final_results, equity_pc, equity_return>>
    /\ UNCHANGED <<codec_vars, top_vars, advice_vars, module_vars, trainer_vars>>

\* The while loop ends, by its condition or by the bail-out; the street's equity is
\* worked out and the for loop goes on.  The counters and the trial are dead from
\* here on (the next pass of the for loop sets the counters to 0) and are cleared.
FinishStreet ==
    /\ equity_pc = "while_sims"
    /\ successful_sims >= simulations \/ BailOut
    /\ final_results' =
           [final_results EXCEPT ![street] =
               StreetFinalResult(street_results[street], successful_sims, sim_count, @)]
    /\ street_idx' = street_idx + 1
    /\ sim_count' = 0
    /\ successful_sims' = 0
    /\ tallied_trial' = NoTrial
    /\ equity_pc' = "for_street"
    /\ UNCHANGED <<equity_args, street_results, equity_return>>
    /\ UNCHANGED <<codec_vars, top_vars, advice_vars, module_vars, trainer_vars>>

\* The for loop is over: return final_results.
ReturnResults ==
    /\ equity_pc = "for_street"
    /\ street_idx > Len(streets_to_simulate(board_cards))
    /\ equity_pc' = "returned"
    /\ equity_return' = "final_results"
    /\ UNCHANGED <<equity_args, street_idx, sim_count, successful_sims, street_results,
                   final_results, tallied_trial>>
    /\ UNCHANGED <<codec_vars, top_vars, advice_vars, module_vars, trainer_vars>>

EquityNext ==
    \/ RejectCall
    \/ AcceptCall
    \/ SkipStreet
    \/ EnterStreet
    \/ Trial
    \/ FinishStreet
    \/ ReturnResults

SpecEquity == EquityInit /\ [][EquityNext]_vars

\* The streets whose pass of the for loop is over.
StreetsDone ==
    IF equity_pc \in {"for_street", "while_sims", "returned"}
    THEN {streets_to_simulate(board_cards)[i] :
             i \in {j \in DOMAIN streets_to_simulate(board_cards) : j < street_idx}}
    ELSE {}

\* The villain combos of the range that share no card with hero's hand or with the
\* part of the board known on the street.
LiveCombos(a_street) ==
    {combo \in Range(villain_combos_all) :
        Range(combo) \cap (Range(hero_cards) \cup Range(current_board(a_street, board_cards)))
            = {}}

\* C4: dead-card discipline.  In a tallied trial hero's two cards, the villain combo's
\* two cards and the five board cards (the known part of the board, then the runout)
\* are nine pairwise distinct cards, and the villain combo shares no card with hero's
\* hand or with the known part of the board.
DeadCardDiscipline ==
    tallied_trial # NoTrial =>
        LET villain == tallied_trial.chosen_villain_hand
            run == tallied_trial.board_run
        IN  /\ Len(villain) = 2 /\ Len(run) = 5
            /\ SubSeq(run, 1, Len(StreetBoard)) = StreetBoard
            /\ Cardinality(Range(hero_cards) \cup Range(villain) \cup Range(run)) = 9
            /\ Range(villain) \cap (Range(hero_cards) \cup Range(StreetBoard)) = {}

\* C4 witness: a trial tallied on the turn, four board cards known and one dealt.
TrialTalliedOnTurn ==
    /\ equity_pc = "while_sims"
    /\ street = "turn"
    /\ successful_sims > 0
    /\ tallied_trial # NoTrial
    /\ Len(StreetBoard) = 4

\* C5: a street for which the dead cards leave no villain combo is reported absent
\* (None, not 0 and not 100), and the call still returns its results.
BlockedStreetAbsent ==
    /\ \A a_street \in StreetsDone :
           LiveCombos(a_street) = {} => final_results[a_street] = None
    /\ (equity_pc = "returned" /\ ~RejectsInputs(hero_hand_str, villain_range_list,
                                                 board_str_list))
           => equity_return = "final_results"

\* C5 witness: the call has returned; preflop had live combos and a result, the flop
\* had none and is absent.
FlopBlockedAndAbsent ==
    /\ equity_pc = "returned"
    /\ equity_return = "final_results"
    /\ "flop" \in StreetsDone
    /\ LiveCombos("preflop") # {}
    /\ final_results["preflop"] # None
    /\ LiveCombos("flop") = {}
    /\ final_results["flop"] = None

\* C6: a street whose simulation ended with no completed trial is reported absent
\* (None), not 0.
ZeroTrialsStreetAbsent ==
    \A a_street \in StreetsDone :
        street_results[a_street].total = 0 => final_results[a_street] = None

\* C11: a lookup that finds a stored percentage of 0 succeeds, with percentage 0, an
\* empty hand list and an advice text that is no error; a lookup on an empty table or
\* on a nearest row without the seat fails, with no percentage and an error text.
\* The two outcomes are told apart by the percentage and by the text.
ZeroPercentageIsSuccess ==
    (advice_pc = "returned" /\ RequestIsValid /\ position \in Range(expected_pos_headers)) =>
        LET row == PUSH_FOLD_RANGES[NearestKey(PUSH_FOLD_RANGES, stack_bb.val)]
            unavailable == PUSH_FOLD_RANGES = EmptyDict \/ position \notin DOMAIN row
        IN  /\ unavailable =>
                   /\ IsErrorResult(advice_result)
                   /\ advice_result.percentage = None
            /\ (~unavailable /\ row[position].val = 0) =>
                   /\ ~IsErrorResult(advice_result)
                   /\ advice_result.advice_str = Text("Push top {percentage:.1f}%", <<0>>)
                   /\ advice_result.percentage # None
                   /\ advice_result.percentage.val = 0
                   /\ advice_result.range_list = <<>>

\* C11 witness: the nearest row stores 0 for the seat and the call has succeeded.
StoredZeroReturned ==
    /\ advice_pc = "returned" /\ RequestIsValid
    /\ PUSH_FOLD_RANGES # EmptyDict
    /\ position \in DOMAIN PUSH_FOLD_RANGES[NearestKey(PUSH_FOLD_RANGES, stack_bb.val)]
    /\ PUSH_FOLD_RANGES[NearestKey(PUSH_FOLD_RANGES, stack_bb.val)][position].val = 0
    /\ advice_result.percentage = PyValue("float", 0)
    /\ ~IsErrorResult(advice_result)

(***************************************************************************)
(* A range text is typed into the text entry and imported.                 *)
(***************************************************************************)
Lower(s) == [i \in 1..Len(s) |-> LowerChar(s[i])]

Kinds == {"s", "o"}

\* The primary ranks of the dashed suited/offsuit tokens that are typed.
DashPrimaryRanks == {"A", "K", "5"}

ExactTokens == Range(SIMPLIFIED_HAND_RANKING)

TwoLetterTokens == {<<a, b>> : a \in Range(RANKS), b \in Range(RANKS)}

DashedPairTokens == {<<a, a, "-", b, b>> : a \in Range(RANKS), b \in Range(RANKS)}

DashedComboTokens ==
    {<<t[1], t[2], t[3], "-", t[4], t[5], t[6]>> :
        t \in DashPrimaryRanks \X Range(RANKS) \X Kinds
               \X DashPrimaryRanks \X Range(RANKS) \X Kinds}

PlusComboTokens ==
    {<<t[1], t[2], t[3], "+">> : t \in Range(RANKS) \X Range(RANKS) \X Kinds}

PlusPairTokens == {<<a, a, "+">> : a \in Range(RANKS)}

\* Tokens of no recognised form.
JunkTokens ==
    {<<"1">>, <<"1", "1">>, <<"A">>, <<"A", "1", "s">>, <<"A", "K", "-">>, <<"+">>,
     <<"A", "+">>, <<"A", "K", "s", "-", "A", "Q">>, <<"A", "A", "s">>,
     <<"A", "K", "+">>, <<"A", "A", "-", "A", "K", "s">>, <<"A", " ", "K">>}

CaseVariants(T) == T \cup {Lower(t) : t \in T} \cup {Upper(t) : t \in T}

SingleTokenTexts ==
    CaseVariants(ExactTokens \cup TwoLetterTokens \cup DashedPairTokens
                 \cup DashedComboTokens \cup PlusComboTokens \cup PlusPairTokens)
    \cup JunkTokens

\* The tokens that are typed together with another one.
CombinedTokens ==
    JunkTokens
    \cup {<<"A", "A">>, <<"K", "K">>, <<"Q", "Q">>, <<"a", "k">>, <<"T", "T", "+">>,
          <<"9", "9", "-", "2", "2">>, <<"A", "2", "s", "-", "A", "5", "s">>,
          <<"A", "9", "s", "+">>, <<"K", "A">>, <<"A", "2", "s", "-", "K", "5", "s">>,
          <<>>}

\* Texts of up to MaxTokens tokens.
RECURSIVE TokenLists(_)
TokenLists(n) ==
    IF n = 0 THEN {<<>>}
    ELSE LET shorter == TokenLists(n - 1)
         IN  shorter \cup {Append(q, t) : <<q, t>> \in shorter \X CombinedTokens}

\* The tokens joined with "," and with ", ".
RECURSIVE JoinSpaced(_)
JoinSpaced(parts) ==
    IF parts = <<>> THEN <<>>
    ELSE IF Len(parts) = 1 THEN parts[1]
    ELSE parts[1] \o <<",", " ">> \o JoinSpaced(Tail(parts))

\* A text of three exact tokens, one more than TokenLists combines.
ThreePairTexts == {<<"A", "A", ",", "K", "K", ",", "Q", "Q">>}

TypedTexts ==
    SingleTokenTexts
    \cup ThreePairTexts
    \cup {Join(",", q) : q \in TokenLists(MaxTokens)}
    \cup {JoinSpaced(q) : q \in TokenLists(MaxTokens)}

ParseInit ==
    /\ selected_hands = {}
    /\ range_text \in TypedTexts
    /\ parsed_hands = {}
    /\ codec_pc = "typed"
    /\ TopIdle
    /\ AdviceIdle
    /\ EquityIdle
    /\ ModuleLoaded
    /\ TrainerIdle

ParseNext == ImportRange

SpecParse == ParseInit /\ [][ParseNext]_vars

\* The 169 canonical classes, and position 0..12 of a rank from the ace down.
CanonicalClasses == Range(SIMPLIFIED_HAND_RANKING)

RankPosition(rank) == CHOOSE i \in 0..(Len(RANKS) - 1) : RANKS[i + 1] = rank

IsRankLetter(c) == UpperChar(c) \in Range(RANKS)

IsKindLetter(c) == LowerChar(c) \in Kinds

Between(x, a, b) == (a <= x /\ x <= b) \/ (b <= x /\ x <= a)

\* The canonical classes of primary rank x and kind k whose secondary rank has a
\* position between lo and hi.
ComboClasses(x, k, lo, hi) ==
    {h \in CanonicalClasses :
        /\ Len(h) = 3 /\ h[1] = x /\ h[3] = k
        /\ Between(RankPosition(h[2]), lo, hi)}

\* The pair classes whose rank has a position between lo and hi.
PairClasses(lo, hi) ==
    {h \in CanonicalClasses : Len(h) = 2 /\ Between(RankPosition(h[1]), lo, hi)}

\* The typed text is one dashed suited/offsuit token XaK-YbL.
IsDashedComboText ==
    /\ Len(range_text) = 7 /\ range_text[4] = "-"
    /\ \A i \in {1, 2, 5, 6} : IsRankLetter(range_text[i])
    /\ IsKindLetter(range_text[3]) /\ IsKindLetter(range_text[7])

\* C12: a dashed suited/offsuit token whose endpoints share primary rank and kind
\* gives exactly the canonical classes of that primary rank and kind whose secondary
\* rank lies between the two endpoints' inclusive, in either endpoint order; when the
\* primary ranks or the kinds differ it gives nothing.
DashedComboExpansion ==
    (codec_pc = "parsed" /\ IsDashedComboText) =>
        LET x == UpperChar(range_text[1])
            y == UpperChar(range_text[5])
            k == LowerChar(range_text[3])
            l == LowerChar(range_text[7])
            a == RankPosition(UpperChar(range_text[2]))
            b == RankPosition(UpperChar(range_text[6]))
        IN  parsed_hands = IF x = y /\ k = l THEN ComboClasses(x, k, a, b) ELSE {}

\* C12 witness: "KQo-K2o", endpoints in descending order, gives the 11 classes.
DashedKingsOffsuit ==
    /\ codec_pc = "parsed"
    /\ range_text = <<"K", "Q", "o", "-", "K", "2", "o">>
    /\ Cardinality(parsed_hands) = 11
    /\ <<"K", "Q", "o">> \in parsed_hands /\ <<"K", "2", "o">> \in parsed_hands

\* The typed text is one plus-suffixed suited/offsuit token XrK+.
IsPlusComboText ==
    /\ Len(range_text) = 4 /\ range_text[4] = "+"
    /\ IsRankLetter(range_text[1]) /\ IsRankLetter(range_text[2])
    /\ IsKindLetter(range_text[3])

IsPlusPairText ==
    /\ Len(range_text) = 3 /\ range_text[3] = "+"
    /\ IsRankLetter(range_text[1])
    /\ UpperChar(range_text[1]) = UpperChar(range_text[2])

\* C14: a plus-suffixed pair token XX+ gives exactly the pair XX and every higher
\* pair up to AA, for every rank and in either letter case.
PlusPairWidensUpward ==
    (codec_pc = "parsed" /\ IsPlusPairText) =>
        parsed_hands = PairClasses(0, RankPosition(UpperChar(range_text[1])))

\* C14 witness: "tt+" in lower case gives the 5 pairs TT..AA.
LowerCaseTensPlus ==
    /\ codec_pc = "parsed"
    /\ range_text = <<"t", "t", "+">>
    /\ parsed_hands = {<<"T", "T">>, <<"J", "J">>, <<"Q", "Q">>, <<"K", "K">>, <<"A", "A">>}

\* The typed text is one dashed pair token XX-YY.
IsDashedPairText ==
    /\ Len(range_text) = 5 /\ range_text[3] = "-"
    /\ IsRankLetter(range_text[1]) /\ IsRankLetter(range_text[4])
    /\ UpperChar(range_text[1]) = UpperChar(range_text[2])
    /\ UpperChar(range_text[4]) = UpperChar(range_text[5])

\* C15: a dashed pair token XX-YY gives exactly the pairs whose rank lies between X
\* and Y inclusive, whichever endpoint is the higher one (so XX-YY and YY-XX give
\* the same set).
DashedPairExpansion ==
    (codec_pc = "parsed" /\ IsDashedPairText) =>
        /\ parsed_hands = PairClasses(RankPosition(UpperChar(range_text[1])),
                                      RankPosition(UpperChar(range_text[4])))
        /\ parsed_hands =
               parse_range_text(<<range_text[4], range_text[5], "-",
                                  range_text[1], range_text[2]>>)

\* C15 witness: "77-JJ", the lower pair first, gives the 5 pairs 77..JJ.
SevensToJacks ==
    /\ codec_pc = "parsed"
    /\ range_text = <<"7", "7", "-", "J", "J">>
    /\ parsed_hands = {<<"7", "7">>, <<"8", "8">>, <<"9", "9">>, <<"T", "T">>, <<"J", "J">>}

\* Combo weight of a set of classes, the sum calculate_range_percentage takes.
RECURSIVE SetWeight(_)
SetWeight(hand_range) ==
    IF hand_range = {} THEN 0
    ELSE LET h == CHOOSE x \in hand_range : TRUE
         IN  get_hand_combos(h) + SetWeight(hand_range \ {h})

\* A token with its rank letters in upper case and a third letter in lower case.
CanonicalCase(token) ==
    [i \in 1..Len(token) |-> IF i = 3 THEN LowerChar(token[i]) ELSE UpperChar(token[i])]

\* The typed text is two letters naming two different ranks.
IsTwoRankText ==
    /\ Len(range_text) = 2
    /\ IsRankLetter(range_text[1]) /\ IsRankLetter(range_text[2])
    /\ UpperChar(range_text[1]) # UpperChar(range_text[2])

\* The suited and the offsuit class of a pair of different ranks.
BothKinds(r1, r2) ==
    {h \in CanonicalClasses : Len(h) = 3 /\ {h[1], h[2]} = {r1, r2}}

\* C16: an exact class token, in any letter case, gives the single-member set of that
\* class; a two-letter token of two different ranks gives both the suited and the
\* offsuit class of that rank pair; "AA,KK,QQ" gives {AA, KK, QQ}, of combo weight 18.
ExactAndTwoLetterTokens ==
    codec_pc = "parsed" =>
        /\ CanonicalCase(range_text) \in CanonicalClasses =>
               parsed_hands = {CanonicalCase(range_text)}
        /\ IsTwoRankText =>
               parsed_hands = BothKinds(UpperChar(range_text[1]), UpperChar(range_text[2]))
        /\ range_text \in ThreePairTexts =>
               /\ parsed_hands = {<<"A", "A">>, <<"K", "K">>, <<"Q", "Q">>}
               /\ SetWeight(parsed_hands) = 18

\* The tokens of the typed text, as split at the commas.
TypedTokens == Split(range_text, ",")

\* C17: the parse of a comma-separated text is the union of the parses of its tokens
\* taken alone; a token of no recognised form contributes the empty set and leaves the
\* other tokens' contributions as they are; every member of the result is one of the
\* 169 canonical classes.
ParseIsUnionOfTokens ==
    codec_pc = "parsed" =>
        /\ parsed_hands =
               UNION {parse_range_text(TypedTokens[i]) : i \in DOMAIN TypedTokens}
        /\ \A i \in DOMAIN TypedTokens :
               Strip(TypedTokens[i]) \in JunkTokens => parse_range_text(TypedTokens[i]) = {}
        /\ parsed_hands \subseteq CanonicalClasses

\* C17 witness: "AK-,TT+", an unrecognised token before a recognised one, gives the
\* five pairs of "TT+".
JunkBesideTensPlus ==
    /\ codec_pc = "parsed"
    /\ range_text = <<"A", "K", "-", ",", "T", "T", "+">>
    /\ <<"A", "K", "-">> \in JunkTokens
    /\ parsed_hands = PairClasses(0, RankPosition("T"))

\* The weight the specification gives a class of each kind.
KindWeight(h) ==
    IF Len(h) = 2 THEN 6 ELSE IF h[3] = "s" THEN 4 ELSE 12

\* C18: the strength ranking lists each of the 169 canonical classes exactly once, the
\* 13 pairs from AA down to 22 first, then the 78 suited classes, then the 78 offsuit
\* classes; get_hand_combos is 6 for a pair, 4 for a suited and 12 for an offsuit class
\* and sums to 1326 over the ranking, so a call that returns the whole ranking returns
\* 1326 combos.
RankingCoversAllClasses ==
    /\ Len(SIMPLIFIED_HAND_RANKING) = 169
    /\ Cardinality(Range(SIMPLIFIED_HAND_RANKING)) = 169
    /\ Range(SIMPLIFIED_HAND_RANKING) = get_all_hands
    /\ \A i \in 1..13 : SIMPLIFIED_HAND_RANKING[i] = <<RANKS[i], RANKS[i]>>
    /\ \A i \in 14..91 :
           Len(SIMPLIFIED_HAND_RANKING[i]) = 3 /\ SIMPLIFIED_HAND_RANKING[i][3] = "s"
    /\ \A i \in 92..169 :
           Len(SIMPLIFIED_HAND_RANKING[i]) = 3 /\ SIMPLIFIED_HAND_RANKING[i][3] = "o"
    /\ \A i \in 1..169 :
           get_hand_combos(SIMPLIFIED_HAND_RANKING[i]) = KindWeight(SIMPLIFIED_HAND_RANKING[i])
    /\ PrefixWeight(169) = 1326
    /\ (top_pc # "start" /\ Len(top_hands) = 169) =>
           /\ top_hands = SIMPLIFIED_HAND_RANKING
           /\ PrefixWeight(Len(top_hands)) = TOTAL_COMBOS

\* C18 witness: a call for 100% returned the whole ranking, 169 classes of 1326 combos.
WholeRankingReturned ==
    /\ top_pc = "called"
    /\ IsIntOrFloat(percentage) /\ percentage.val = 100 * UnitsPerPercent
    /\ top_hands = SIMPLIFIED_HAND_RANKING
    /\ Cardinality(Range(top_hands)) = 169
    /\ PrefixWeight(Len(top_hands)) = 1326

\* The number of board cards the specification fixes for each street.
BoardCardsOnStreet(a_street) ==
    IF a_street = "flop" THEN 3
    ELSE IF a_street = "turn" THEN 4
    ELSE IF a_street = "river" THEN 5
    ELSE 0

\* The board a street may be simulated on: flop from 3 cards, turn from 4, river with 5.
BoardAllowsStreet(a_street) ==
    IF a_street = "river" THEN Len(board_cards) = 5
    ELSE Len(board_cards) >= BoardCardsOnStreet(a_street)

\* C19: preflop is always attempted; flop, turn and river stay absent, with no trial
\* tallied, unless the board has at least 3, at least 4, exactly 5 cards; a simulated
\* street fixes exactly the first 0, 3, 4, 5 board cards: they open every run, and
\* only they (with hero's hand) take villain combos out.
StreetsFollowBoardLength ==
    /\ equity_pc \in {"for_street", "while_sims", "returned"} =>
           /\ \A a_street \in Range(STREETS) :
                  (final_results[a_street] # None \/ street_results[a_street].total > 0)
                      => BoardAllowsStreet(a_street)
           /\ \A a_street \in StreetsDone : BoardAllowsStreet(a_street)
    /\ (equity_pc = "returned" /\ equity_return = "final_results") =>
           StreetsDone = {a_street \in Range(STREETS) : BoardAllowsStreet(a_street)}
    /\ equity_pc = "while_sims" =>
           LET fixed == SubSeq(board_cards, 1, BoardCardsOnStreet(street))
           IN  /\ BoardAllowsStreet(street)
               /\ StreetBoard = fixed
               /\ Range(StreetCombos) =
                      {combo \in Range(villain_combos_all) :
                          /\ Range(combo) \cap (Range(hero_cards) \cup Range(fixed)) = {}
                          /\ Cardinality(Range(combo)) = 2}
               /\ tallied_trial # NoTrial =>
                      SubSeq(tallied_trial.board_run, 1, Len(fixed)) = fixed

\* C19 witness: a call with a four-card board has returned; preflop and turn are
\* reported, the river is absent.
FourCardBoardHasNoRiver ==
    /\ equity_pc = "returned"
    /\ equity_return = "final_results"
    /\ Len(board_cards) = 4
    /\ final_results["preflop"] # None
    /\ final_results["turn"] # None
    /\ final_results["river"] = None
    /\ StreetsDone = {"preflop", "flop", "turn"}

\* (wins + ties/2) / total * 100 of a tally, in the units of a percentage.
TallyEquity(result) ==
    ((2 * result.wins + result.ties) * 100 * UnitsPerPercent) \div (2 * result.total)

\* The tallies are consistent, and a street's reported equity is the one of its tally.
TallyConsistent ==
    \A a_street \in Range(STREETS) :
        LET result == street_results[a_street]
        IN  /\ result.wins >= 0 /\ result.ties >= 0
            /\ result.wins + result.ties <= result.total
            /\ final_results[a_street] # None =>
                   /\ 0 <= final_results[a_street].val
                   /\ final_results[a_street].val <= 100 * UnitsPerPercent
            /\ (a_street \in StreetsDone /\ result.total > 0) =>
                   final_results[a_street] = PyValue("float", TallyEquity(result))
            /\ result.total = 0 => final_results[a_street] \in {None, PyValue("float", 0)}

\* One step changes the tally of the current street only, by one trial that is a win,
\* a tie or a loss.
TallyStep ==
    \A a_street \in Range(STREETS) :
        LET old == street_results[a_street]
            new == street_results'[a_street]
        IN  \/ new = old
            \/ /\ equity_pc = "while_sims" /\ a_street = street
               /\ new.total = old.total + 1
               /\ \/ new.wins = old.wins + 1 /\ new.ties = old.ties
                  \/ new.wins = old.wins /\ new.ties = old.ties + 1
                  \/ new.wins = old.wins /\ new.ties = old.ties

\* C20: within a street each completed trial raises the total by exactly one and counts
\* as exactly one of win, tie or loss; wins + ties <= total in every state; the reported
\* equity is (wins + ties/2) / total * 100, lies in [0, 100] and is computed only when
\* total > 0.
TrialsCountedOnce == [][TallyStep]_vars /\ []TallyConsistent

\* C20 witness: preflop ended with one win and one tie out of two trials and is
\* reported as 75%.
WinAndTieIsThreeQuarters ==
    /\ equity_pc = "returned"
    /\ street_results["preflop"] = [wins |-> 1, ties |-> 1, total |-> 2]
    /\ final_results["preflop"] = Percent(750)

(***************************************************************************)
(* Concurrent requests against the imported module: callers ask for top    *)
(* hands and for advice while an equity computation runs, in any order,    *)
(* and do what they like with the lists they were handed.  The functions   *)
(* read the ranking as written; a state in which ranking_list differs from *)
(* it is one where the module has been damaged.  The equity call is one    *)
(* whose inputs pass and whose range is live, so that its loop runs.       *)
(***************************************************************************)
\* What a caller may do to a list it holds.
MutateList(items, how) ==
    IF how = "append" THEN Append(items, <<"X", "X">>) ELSE <<>>

RequestsInit ==
    /\ \E base \in {Percent(350).val, Percent(1500).val} :
           PUSH_FOLD_RANGES =
               LoadPushFoldRanges([is_file |-> TRUE, has_stack_header |-> TRUE,
                                   rows |-> <<CsvRow(NumCell(2), base, {}, {})>>])
    /\ stack_bb = None
    /\ position = ""
    /\ players_left = None
    /\ advice_result = NoResult
    /\ advice_pc = "loaded"
    /\ percentage = None
    /\ top_hands = <<>>
    /\ prev_percentage = None
    /\ prev_top_hands = <<>>
    /\ top_pc = "start"
    /\ hero_hand_str = <<"A", "s", "A", "h">>
    /\ villain_range_list = <<<<"A", "A">>>>
    /\ board_str_list = <<>>
    /\ street_idx = 0
    /\ sim_count = 0
    /\ successful_sims = 0
    /\ street_results = initial_street_results
    /\ final_results = initial_final_results
    /\ tallied_trial = NoTrial
    /\ equity_pc = "called"
    /\ equity_return = "none"
    /\ CodecIdle
    /\ ModuleLoaded
    /\ TrainerIdle

\* A request calls get_top_hands_by_percentage and keeps the list as top_hands.
RequestTopHands ==
    /\ top_pc \in {"start", "called", "mutated"}
    /\ \E q \in {Percent(350), Percent(1500)} :
        /\ percentage' = q
        /\ top_hands' = get_top_hands_by_percentage(q)
        /\ ranking_aliases' = Rebind(ranking_aliases, "top_hands", TopHandsObject(q))
    /\ top_pc' = "called"
    /\ UNCHANGED <<prev_percentage, prev_top_hands, ranking_list, trainer_vars>>
    /\ UNCHANGED <<codec_vars, advice_vars, equity_vars>>

\* A request calls get_push_fold_advice and keeps the 4-tuple as advice_result.
RequestAdvice ==
    /\ advice_pc \in {"loaded", "returned", "mutated"}
    /\ \E s \in {PyValue("int", 0), PyValue("int", 2)}, p \in {"SB"} :
        /\ stack_bb' = s
        /\ position' = p
        /\ players_left' = PyValue("int", 2)
        /\ advice_result' = get_push_fold_advice(PUSH_FOLD_RANGES, s, p, PyValue("int", 2))
        /\ ranking_aliases' =
               Rebind(ranking_aliases, "range_list",
                      RangeListObject(get_push_fold_advice(PUSH_FOLD_RANGES, s, p,
                                                           PyValue("int", 2))))
    /\ advice_pc' = "returned"
    /\ UNCHANGED <<PUSH_FOLD_RANGES, ranking_list, trainer_vars>>
    /\ UNCHANGED <<codec_vars, top_vars, equity_vars>>

\* A caller changes, in place, the list a request holds as ref.  The change shows
\* through every reference to the same list object, the module's own included.
CallerMutates(ref) ==
    /\ IF ref = "top_hands" THEN top_pc = "called" ELSE advice_pc = "returned"
    /\ \E how \in {"append", "clear"} :
        LET held == IF ref = "top_hands" THEN top_hands ELSE advice_result.range_list
            changed == MutateList(held, how)
            seen == IF ref \in ranking_aliases THEN ranking_aliases \cup {ref} ELSE {ref}
        IN  /\ top_hands' = IF "top_hands" \in seen THEN changed ELSE top_hands
            /\ advice_result' =
                   IF "range_list" \in seen
                   THEN [advice_result EXCEPT !.range_list = changed]
                   ELSE advice_result
            /\ ranking_list' = IF ref \in ranking_aliases THEN changed ELSE ranking_list
    /\ top_pc' = IF ref = "top_hands" THEN "mutated" ELSE top_pc
    /\ advice_pc' = IF ref = "top_hands" THEN advice_pc ELSE "mutated"
    /\ UNCHANGED <<percentage, prev_percentage, prev_top_hands, PUSH_FOLD_RANGES, stack_bb,
                   position, players_left, ranking_aliases>>
    /\ UNCHANGED <<codec_vars, equity_vars, trainer_vars>>

RequestsNext ==
    \/ RequestTopHands
    \/ RequestAdvice
    \/ CallerMutates("top_hands")
    \/ CallerMutates("range_list")
    \/ AcceptCall
    \/ EnterStreet
    \/ Trial
    \/ FinishStreet
    \/ ReturnResults

SpecRequests == RequestsInit /\ [][RequestsNext]_vars

\* No step changes the table or the ranking.
ModuleDataUnchanged ==
    /\ PUSH_FOLD_RANGES' = PUSH_FOLD_RANGES
    /\ ranking_list' = ranking_list

\* C21: no call of get_push_fold_advice, get_top_hands_by_percentage or the equity
\* engine, in any interleaving, changes the loaded push/fold table or the strength
\* ranking; the list returned for a percentage of 100 or more is a copy, so that a
\* caller changing it in place leaves the ranking as it was.
ModuleDataReadOnly ==
    /\ [][ModuleDataUnchanged]_vars
    /\ [](ranking_list = SIMPLIFIED_HAND_RANKING /\ ranking_aliases = {})

\* C21 witness: while the equity loop runs and an advice request has returned, a
\* caller that was handed the whole ranking has changed its list; the ranking stands.
CallerChangedItsCopy ==
    /\ top_pc = "mutated"
    /\ IsIntOrFloat(percentage) /\ percentage.val >= 100 * UnitsPerPercent
    /\ top_hands # SIMPLIFIED_HAND_RANKING
    /\ ranking_list = SIMPLIFIED_HAND_RANKING
    /\ advice_pc = "returned"
    /\ equity_pc = "while_sims"

\* A step that is one more pass of the while loop.
SamplingPass == equity_pc = "while_sims" /\ sim_count' = sim_count + 1

\* A pass is made only below the target and not beyond the retry ceiling.
PassWithinLimits ==
    SamplingPass =>
        /\ successful_sims < simulations
        /\ sim_count <= simulations * max_attempts_multiplier

\* C22: the sampling loop of a street stops as soon as it holds the target number of
\* valid trials or its attempt count exceeds the retry ceiling of 5 times the target,
\* also when some but not all attempts were discarded; it then reports the equity of
\* the valid trials it reached, or absent if there were none.
SamplingStopsAtCeiling ==
    /\ [][PassWithinLimits]_vars
    /\ [](\A a_street \in StreetsDone :
             final_results[a_street] =
                 IF street_results[a_street].total > 0
                 THEN PyValue("float", TallyEquity(street_results[a_street]))
                 ELSE None)

\* A pass of the loop that was discarded although every choice of villain hand and of
\* runout passes the checks before the evaluation: the evaluator raised.
EvaluatorFailed ==
    /\ SamplingPass
    /\ successful_sims' = successful_sims
    /\ \A c \in DOMAIN StreetCombos, deal \in DealChoices(5 - Len(StreetBoard)) :
           Attempt(hero_cards, StreetBoard, StreetCombos[c], deal, "hero").evaluated

\* C23: a failure of the hand evaluator during a trial is fatal to the equity
\* computation: the computation stops there and yields no result; the failed trial is
\* not skipped and the sampling does not go on.
EvaluatorFailureIsFatal ==
    [][EvaluatorFailed => (equity_pc' = "returned" /\ equity_return' = "None")]_vars

\* C24: a street for which no villain combo remains after the dead-card filter is
\* reported as the "no equity" value 0%, which differs from the report of a street
\* that was not computed (None).
BlockedStreetIsZero ==
    equity_pc \in {"for_street", "while_sims", "returned"} =>
        /\ \A a_street \in StreetsDone :
               LiveCombos(a_street) = {} => final_results[a_street] = PyValue("float", 0)
        /\ \A a_street \in Range(STREETS) \ Range(streets_to_simulate(board_cards)) :
               final_results[a_street] = None

(***************************************************************************)
(* generate_combos on ranges of canonical classes: the engine is called    *)
(* with one class, with two classes or with the whole ranking as villain's *)
(* range, and expands it when its inputs have passed; the preflop street   *)
(* is then entered if the dead-card filter leaves a combo.                 *)
(***************************************************************************)
CombosInit ==
    /\ hero_hand_str \in {<<"A", "s", "A", "h">>, <<"A", "s", "K", "s">>,
                          <<"A", "s", "K", "h">>, <<"K", "c", "K", "d">>,
                          <<"7", "d", "2", "c">>}
    /\ villain_range_list \in
           {<<c>> : c \in Range(SIMPLIFIED_HAND_RANKING)}
           \cup {<<c, d>> : c \in {<<"A", "K", "s">>, <<"A", "A">>},
                            d \in {<<"A", "K", "o">>, <<"K", "K">>, <<"K", "A", "s">>}}
           \cup {SIMPLIFIED_HAND_RANKING}
    /\ board_str_list \in {<<>>, <<<<"9", "d">>, <<"9", "c">>, <<"9", "h">>>>}
    /\ street_idx = 0
    /\ sim_count = 0
    /\ successful_sims = 0
    /\ street_results = initial_street_results
    /\ final_results = initial_final_results
    /\ tallied_trial = NoTrial
    /\ equity_pc = "called"
    /\ equity_return = "none"
    /\ CodecIdle
    /\ TopIdle
    /\ AdviceIdle
    /\ ModuleLoaded
    /\ TrainerIdle

CombosNext == AcceptCall \/ EnterStreet

SpecCombos == CombosInit /\ [][CombosNext]_vars

\* The two-card subsets of the 52-card deck.
TwoCardHands ==
    {{Deck[i], Deck[j]} : <<i, j>> \in {p \in (DOMAIN Deck) \X (DOMAIN Deck) : p[1] < p[2]}}

\* The cards of a combo are what the kind of its class says.
ComboFitsClass(combo, class) ==
    /\ Len(combo) = 2 /\ combo[1] # combo[2]
    /\ combo[1][1] = class[1] /\ combo[2][1] = class[2]
    /\ Len(class) = 3 => ((combo[1][2] = combo[2][2]) <=> (class[3] = "s"))

\* C25: generate_combos expands a canonical class into exactly get_hand_combos(class)
\* combos (6 for a pair, 4 same-suit for a suited class, 12 cross-suit for an offsuit
\* class), each of two distinct cards; no card pair comes twice, from one class or from
\* two, so the 169 classes give each of the 1326 two-card subsets of the deck once.
CombosPartitionDeck ==
    (equity_pc = "for_street" /\ Range(villain_range_list) \subseteq CanonicalClasses) =>
        LET combos == villain_combos_all
            hands == {Range(combos[i]) : i \in DOMAIN combos}
        IN  /\ \A k \in DOMAIN villain_range_list :
                   LET class == villain_range_list[k]
                       expanded == generate_combos(<<class>>)
                   IN  /\ Len(expanded) = get_hand_combos(class)
                       /\ Len(expanded) = KindWeight(class)
                       /\ \A i \in DOMAIN expanded : ComboFitsClass(expanded[i], class)
            /\ hands \subseteq TwoCardHands
            /\ Cardinality(hands) = Len(combos)
            /\ villain_range_list = SIMPLIFIED_HAND_RANKING =>
                   Len(combos) = TOTAL_COMBOS /\ hands = TwoCardHands

\* C25 witness: the whole ranking was expanded into 1326 combos.
WholeRankingExpanded ==
    /\ equity_pc = "for_street"
    /\ villain_range_list = SIMPLIFIED_HAND_RANKING
    /\ Len(villain_combos_all) = 1326
    /\ Cardinality({Range(villain_combos_all[i]) : i \in DOMAIN villain_combos_all}) = 1326

(***************************************************************************)
(* The range grid with whole rows of it selected: any set of pairs, any    *)
(* set of suited aces, any set of offsuit kings.                           *)
(***************************************************************************)
RunsInit ==
    /\ selected_hands \in
           (SUBSET {h \in get_all_hands : Len(h) = 2})
           \cup (SUBSET {h \in get_all_hands : Len(h) = 3 /\ h[1] = "A" /\ h[3] = "s"})
           \cup (SUBSET {h \in get_all_hands : Len(h) = 3 /\ h[1] = "K" /\ h[3] = "o"})
    /\ range_text = <<>>
    /\ parsed_hands = {}
    /\ codec_pc = "selected"
    /\ TopIdle
    /\ AdviceIdle
    /\ EquityIdle
    /\ ModuleLoaded
    /\ TrainerIdle

RunsNext == CopyRange \/ ImportRange

SpecRuns == RunsInit /\ [][RunsNext]_vars

\* The pairs selected, as positions 0..12 in RANKS.
SelectedPairPositions ==
    {RankPosition(h[1]) : h \in {x \in selected_hands : Len(x) = 2}}

\* Positions a..b are a maximal run of selected pairs.
IsMaximalPairRun(a, b) ==
    /\ a <= b
    /\ \A i \in a..b : i \in SelectedPairPositions
    /\ (a - 1) \notin SelectedPairPositions
    /\ (b + 1) \notin SelectedPairPositions

\* C26: every maximal run of three or more rank-adjacent pairs of the selection is
\* written as one dashed token, wherever in the rank order the run lies, the runs
\* through T, J, Q, K and A included.
PairRunsAreDashed ==
    codec_pc \in {"copied", "imported"} =>
        \A a \in 0..(Len(RANKS) - 1), b \in 0..(Len(RANKS) - 1) :
            (IsMaximalPairRun(a, b) /\ b - a >= 2) =>
                \E i \in DOMAIN TypedTokens :
                    TypedTokens[i] \in
                        {<<RANKS[b + 1], RANKS[b + 1], "-", RANKS[a + 1], RANKS[a + 1]>>,
                         <<RANKS[a + 1], RANKS[a + 1], "-", RANKS[b + 1], RANKS[b + 1]>>}

\* C27: no class is lost by formatting: the text of a selection parses back to a
\* superset of the selection, and the empty selection gives the empty text, which
\* parses back to the empty set.
NoClassLost ==
    /\ codec_pc \in {"copied", "imported"} =>
           (selected_hands = {} => range_text = <<>>)
    /\ codec_pc = "imported" =>
           /\ selected_hands \subseteq parsed_hands
           /\ selected_hands = {} => parsed_hands = {}

\* C27 witness: three suited aces that are not adjacent were formatted and parsed back
\* to more than was selected, the selection included.
GappedAcesComeBackWider ==
    /\ codec_pc = "imported"
    /\ selected_hands = {<<"A", "K", "s">>, <<"A", "T", "s">>, <<"A", "2", "s">>}
    /\ selected_hands \subseteq parsed_hands
    /\ Cardinality(parsed_hands) = 12

\* C28: for a valid hero hand and a non-empty range of canonical classes the preflop
\* street, which knows no board card, keeps at least one villain combo after the
\* dead-card filter, whatever the board of the call, and so is never skipped; each
\* class of a short range keeps a combo of its own.
PreflopNeverBlocked ==
    (/\ equity_pc \in {"for_street", "while_sims"}
     /\ street_idx = 1
     /\ Range(villain_range_list) \subseteq CanonicalClasses) =>
        LET combos == StreetCombos
        IN  /\ street = "preflop"
            /\ StreetBoard = <<>>
            /\ combos # <<>>
            /\ Len(villain_range_list) <= 2 =>
                   \A k \in DOMAIN villain_range_list :
                       \E i \in DOMAIN combos :
                           ComboFitsClass(combos[i], villain_range_list[k])

\* C28 witness: hero holds two aces against a range of AA alone; one combo is left and
\* the preflop loop has been entered.
LastAcesLeft ==
    /\ equity_pc = "while_sims"
    /\ street_idx = 1
    /\ hero_hand_str = <<"A", "s", "A", "h">>
    /\ villain_range_list = <<<<"A", "A">>>>
    /\ Len(StreetCombos) = 1

\* A pass that tallied nothing was one whose evaluation raised.
DiscardIsEvaluatorFailure ==
    (SamplingPass /\ successful_sims' = successful_sims) => EvaluatorFailed

\* C29: on a street with a non-empty filtered combo set no attempt is discarded for a
\* duplicate card or a short deck: an attempt is a valid trial unless the evaluator
\* fails.  The street's total is the count of valid trials, and when no attempt has been
\* discarded the loop ends with attempts, valid trials and total all equal to the
\* trial budget.
EveryAttemptIsATrial ==
    /\ [][DiscardIsEvaluatorFailure]_vars
    /\ [](equity_pc = "while_sims" =>
             /\ StreetCombos # <<>>
             /\ street_results[street].total = successful_sims
             /\ successful_sims <= sim_count
             /\ successful_sims <= simulations
             /\ (successful_sims = sim_count /\ successful_sims >= simulations) =>
                    (sim_count = simulations /\ street_results[street].total = simulations))

\* C29 witness: the flop loop has ended after as many attempts as the budget, each of
\* them a valid trial.
BudgetSpentWithoutDiscard ==
    /\ equity_pc = "while_sims"
    /\ street = "flop"
    /\ sim_count = simulations
    /\ successful_sims = simulations
    /\ street_results["flop"].total = simulations

\* ---------------------------------------------------------------------------------
\* The Streamlit trainer (src/trainer_app.py): a quiz of MAX_QUESTIONS scenarios, each
\* answered with "push" or "fold" and scored on the feedback screen.

MAX_QUESTIONS == 5

\* Scenarios of generate_random_scenario (hand, stack_bb, pos, players_left), without
\* their two card images.
Scenarios ==
    {[hand |-> hand, stack |-> PyValue("int", 2), pos |-> "SB", players |-> PyValue("int", 2)] :
        hand \in {<<"A", "A">>, <<"7", "2", "o">>}}

\* The state initialize_session_state sets when a quiz starts.
initialize_session_state(scenarios) ==
    [quiz_started |-> TRUE,
     scenarios |-> scenarios,
     current_index |-> 0,
     score |-> 0,
     review_data |-> <<>>,
     show_feedback |-> FALSE,
     user_choice |-> "None",
     push_range_details |-> "None",
     feedback_processed |-> FALSE]

\* f"Runtime Error: {e}" for the ValueError of an unpacking of the wrong length.
RuntimeError == Text("Runtime Error: too many values to unpack (expected 3)", <<>>)

\* "Error:" in advice_str
HasErrorMark(advice_str) == advice_str.fmt \in ErrorAdvice \cup {RuntimeError.fmt}

\* advice_str, push_range, percentage = get_push_fold_advice(stack, pos, players), inside
\* the try of handle_user_action: the three values push_range_details is left with.
\* result is what the call returns, a tuple of four values.
UnpackedDetails(result) ==
    LET returned ==
            <<result.advice_str, result.range_list, result.percentage, result.tips_str>>
        Details(advice_str, push_range, pct) ==
            [advice_str |-> advice_str, push_range |-> push_range, percentage |-> pct]
    IN  IF Len(returned) # 3
        THEN Details(RuntimeError, None, None)
        ELSE IF HasErrorMark(returned[1])
                /\ (returned[2] # None \/ returned[3] # None)
        THEN Details(returned[1], None, None)
        ELSE Details(returned[1], PyValue("list", returned[2]), returned[3])

\* The scenario on screen.
CurrentScenario == session_state.scenarios[session_state.current_index + 1]

\* The list get_push_fold_advice of poker_logic.py returns for the scenario on screen.
AdvisedRange ==
    get_push_fold_advice(PUSH_FOLD_RANGES, CurrentScenario.stack, CurrentScenario.pos,
                         CurrentScenario.players).range_list

\* What show_feedback_ui adds to review_data for an answer.
Review(details, hand, user_choice) ==
    IF HasErrorMark(details.advice_str)
    THEN [user_action |-> user_choice, correct_action |-> "Unknown",
          is_correct |-> "None", logic_error |-> TRUE]
    ELSE IF details.push_range.type = "list"
    THEN LET correct_action ==
                 IF hand \in Range(details.push_range.val) THEN "push" ELSE "fold"
         IN  [user_action |-> user_choice, correct_action |-> correct_action,
              is_correct |-> IF user_choice = correct_action THEN "True" ELSE "False",
              logic_error |-> FALSE]
    ELSE [user_action |-> user_choice, correct_action |-> "Unknown",
          is_correct |-> "None", logic_error |-> TRUE]

TrainerInit ==
    /\ \E base \in {Percent(350).val, Percent(1500).val} :
           PUSH_FOLD_RANGES =
               LoadPushFoldRanges([is_file |-> TRUE, has_stack_header |-> TRUE,
                                   rows |-> <<CsvRow(NumCell(2), base, {}, {})>>])
    /\ stack_bb = None
    /\ position = ""
    /\ players_left = None
    /\ advice_result = NoResult
    /\ advice_pc = "loaded"
    /\ \E scenarios \in [1 .. MAX_QUESTIONS -> Scenarios] :
           session_state = initialize_session_state(scenarios)
    /\ CodecIdle
    /\ TopIdle
    /\ EquityIdle
    /\ ModuleLoaded

\* A button of the question screen: handle_user_action(user_action), then a rerun.
handle_user_action ==
    /\ session_state.quiz_started
    /\ session_state.current_index < MAX_QUESTIONS
    /\ ~session_state.show_feedback
    /\ \E user_action \in {"push", "fold"} :
           session_state' =
               [session_state EXCEPT
                   !.user_choice = user_action,
                   !.push_range_details =
                       UnpackedDetails(
                           get_push_fold_advice(PUSH_FOLD_RANGES, CurrentScenario.stack,
                                                CurrentScenario.pos,
                                                CurrentScenario.players)),
                   !.show_feedback = TRUE]
    /\ UNCHANGED <<codec_vars, top_vars, advice_vars, equity_vars, module_vars>>

\* The feedback screen: it scores the answer, adds it to the review, waits and moves on
\* to the next question.
show_feedback_ui ==
    /\ session_state.quiz_started
    /\ session_state.current_index < MAX_QUESTIONS
    /\ session_state.show_feedback
    /\ LET review == Review(session_state.push_range_details, CurrentScenario.hand,
                            session_state.user_choice)
       IN  session_state' =
               [session_state EXCEPT
                   !.score = IF review.is_correct = "True" THEN @ + 1 ELSE @,
                   !.review_data = Append(@, review),
                   !.current_index = @ + 1,
                   !.show_feedback = FALSE,
                   !.user_choice = "None",
                   !.feedback_processed = FALSE]
    /\ UNCHANGED <<codec_vars, top_vars, advice_vars, equity_vars, module_vars>>

\* TRY AGAIN on the final score screen: quiz_started goes False and the rerun starts a
\* new quiz.
TryAgain ==
    /\ session_state.quiz_started
    /\ session_state.current_index >= MAX_QUESTIONS
    /\ \E scenarios \in [1 .. MAX_QUESTIONS -> Scenarios] :
           session_state' = initialize_session_state(scenarios)
    /\ UNCHANGED <<codec_vars, top_vars, advice_vars, equity_vars, module_vars>>

TrainerNext == handle_user_action \/ show_feedback_ui \/ TryAgain

SpecTrainer == TrainerInit /\ [][TrainerNext]_vars

\* The feedback screen scores an answer that equals the advised action.
AnswerIsAdvised ==
    /\ show_feedback_ui
    /\ session_state.user_choice =
           (IF CurrentScenario.hand \in Range(AdvisedRange) THEN "push" ELSE "fold")

LastReview == session_state.review_data[Len(session_state.review_data)]

\* C30: an answer equal to the advised action (push when the dealt hand class is in the
\* list get_push_fold_advice returns for the scenario, fold otherwise) is recorded as
\* correct and adds exactly one to the score; the score changes in no other way and never
\* exceeds the number of answered questions.
AdvisedAnswerScores ==
    /\ [][AnswerIsAdvised =>
              /\ session_state'.score = session_state.score + 1
              /\ LastReview'.is_correct = "True"]_vars
    /\ [][(session_state.quiz_started /\ session_state'.quiz_started
           /\ session_state'.score # session_state.score) =>
              \/ AnswerIsAdvised /\ session_state'.score = session_state.score + 1
              \/ TryAgain /\ session_state'.score = 0]_vars
    /\ [](session_state.quiz_started =>
              session_state.score <= Len(session_state.review_data))

====
